---- MODULE Spec2Model ----
(***************************************************************************)
(* EventMux (smilad/Event-MUX): the routing engine of core/router.go, its  *)
(* middleware composition, and the Broker it drives.  The router is        *)
(* modelled with every goroutine Start creates: the Start call itself, one *)
(* subscription task per snapshotted route and the task that closes the    *)
(* error channel once the wait group is empty.                             *)
(***************************************************************************)
EXTENDS Naturals, Sequences, FiniteSets, TLC

(* ------------------------------------------------------------------ *)
(* Bounds and the small sets the inputs are drawn from                 *)
(* ------------------------------------------------------------------ *)

\* longest middleware list built with Use
MaxMws == 2
\* Router.Publish calls in one behaviour
MaxPublish == 1

\* Context method calls in one behaviour
MaxOps == 2

\* most levels of a pattern or a topic given to Match
MaxLevels == 3

\* longest middleware list composed around a handler that may panic
MaxChain == 3

\* broker.Register calls in one behaviour
MaxRegister == 3

\* Close calls made on a broker adapter directly
MaxClose == 2

\* goroutines that may call Router.Start
Callers == {"s1", "s2"}
\* topic patterns given to Handle
Patterns == {"orders.created", "orders.failed"}
\* handler functions given to Handle
HandlerIds == {"h1", "h2"}
\* middlewares given to Use (mw("A"), mw("B") of TestRouter_Middleware)
MwNames == {"A", "B"}
\* topics given to Router.Publish
PubTopics == {"out.topic"}
\* messages a broker delivers: m1 holds a JSON document, m2 does not
Msgs == {"m1", "m2"}
\* the Contexts alive at one time: one per subscription, whose deliveries
\* the consume loop hands over one after the other, and one built directly
CtxIds == Patterns \cup {"direct"}
\* keys and values of the Context store (TestRouter_ContextStore)
Keys == {"user-id"}
Vals == {"usr-42", "usr-7"}
\* topics given to Context.Republish (TestRouter_Republish)
RepubTopics == {"orders.dlq"}
\* binders given to NewContext: none, or the JSONBinder
Binders == {"none", "JSONBinder"}
\* levels of the topics given to Match: two words, and the wildcard
\* characters, which stand for themselves in a topic
TopicLevels == {"orders", "us", "*", "#"}
\* levels of the patterns given to Match
PatternLevels == {"orders", "us", "*", "#"}
\* middlewares composed around a handler that may panic: mw("A"), mw("B"),
\* mw("C") and middleware.Recovery()
ChainMws == {"A", "B", "C", "Recovery"}
\* when a middleware panics: before it calls next, or after next returned
Phases == {"before", "after"}
\* goroutines that call broker.Create
Creators == {"k1", "k2"}
\* names given to broker.Register and broker.Create
BrokerNames == {"kafka", "nats"}
\* factories given to broker.Register
Factories == {"f1", "f2"}
\* goroutines that call Use and Handle while Start calls are made
Registrars == {"r1", "r2"}
\* goroutines that call Subscribe of one kafka Broker, and goroutines that
\* call its Close
KSubscribers == {"t1", "t2"}
KClosers == {"x1", "x2"}
\* the broker adapters: plugins/kafka, plugins/rabbitmq, plugins/nats
Adapters == {"kafka", "rabbitmq", "nats"}
\* matchers: the DefaultMatcher New installs and one given to SetMatcher,
\* whose Match returns false for every pattern and topic
Matchers == {"DefaultMatcher", "custom"}

(* ------------------------------------------------------------------ *)
(* Errors (core/errors) and results                                    *)
(* ------------------------------------------------------------------ *)

NotReturned == <<>>
Nil == <<"nil">>
ErrNoBroker == <<"ErrNoBroker">>
ErrAlreadyStarted == <<"ErrAlreadyStarted">>
\* what a panicking call leaves instead of a result
Panic == <<"panic">>
\* fmt.Errorf("eventmux: subscribe %q: %w", p, err)
SubscribeError(p, err) == <<"subscribe", p, err>>
IsSubscribeError(r) == Len(r) = 3 /\ r[1] = "subscribe"

\* errors a Broker.Subscribe call may return: at once (the mock's
\* SubscribeErr, a closed or failing adapter) or from its consume loop
SubscribeErr == "ErrSubscribe"
FetchErr == "ErrFetch"
\* results of Broker.Close: nil, or the first error an adapter collected
CloseResults == {Nil, <<"ErrClose">>}
\* core.ErrBrokerClosed
BrokerClosedErr == "ErrBrokerClosed"
ErrBrokerClosed == <<BrokerClosedErr>>
\* what a consume loop does with a delivery after the handler: nothing,
\* d.Nack(multiple, requeue) or jsMsg.Nak()
NoNack == <<>>
Nacked(requeueFlag) == <<"Nack", FALSE, requeueFlag>>
Naked == <<"Nak">>
\* results of Broker.Publish on a broker: nil or the mock's PublishErr
PublishResults == {Nil, <<"ErrPublish">>}
\* results of Message.Ack and Message.Nack: nil or the mock's AckErr, NackErr
AckResults == {Nil, <<"ErrAck">>}
NackResults == {Nil, <<"ErrNack">>}
\* what a handler returns
HandlerResults == {Nil, <<"ErrHandler">>}
\* fmt.Errorf("eventmux: ack: %w", err), "eventmux: nack: %w"
AckError(err) == <<"ack", err>>
NackError(err) == <<"nack", err>>
\* fmt.Errorf("eventmux: republish to %q: %w", topic, err)
RepublishError(t, err) == <<"republish", t, err>>
\* fmt.Errorf("eventmux: no binder configured")
ErrNoBinder == <<"no binder configured">>
\* fmt.Errorf("eventmux: bind: %w", err)
BindError(err) == <<"bind", err>>
\* fmt.Errorf("eventmux: unknown broker %q", name)
UnknownBroker(n) == <<"unknown broker", n>>
\* what factory f returns: a broker or its own error
FactoryResults(f) == {<<"broker", f>>, <<"ErrFactory", f>>}
\* fmt.Errorf("eventmux: panic recovered: %v", r)
PanicRecovered == <<"panic recovered", "test panic">>
\* fmt.Errorf("json: %w", err) of JSONBinder.Bind
JSONError == <<"json", "ErrSyntax">>

VARIABLES
  \* Router fields
  hasBroker,     \* r.broker # nil
  middlewares,   \* r.middlewares
  routes,        \* r.routes: a function whose domain is the registered patterns
  matcher,       \* r.matcher
  started,       \* r.started
  \* the context passed to Start
  ctxDone,
  \* each Start call: its position, result and locals
  pc, result, snapRoutes, snapMws, snapMatcher, errCh, errClosed,
  \* each subscription goroutine of each Start call, the handler it passes
  \* to Subscribe and the error its Subscribe call returned
  task, wrapped, taskErr,
  \* the broker: closed flag, published messages
  closed, published,
  \* observations
  lastHandle,    \* the handler of the most recent Handle call, per pattern
  subscribeCalls,\* caller -> pattern -> the handlers passed to Broker.Subscribe
  closeCalls,    \* Broker.Close calls issued by each Start call
  closeResult,   \* what the Close call of each Start call returned
  execLog,       \* the most recent delivery: its subscription and message,
                 \* the order of execution, whether the snapshot was stale
                 \* by then and, once it has returned, what the wrapped
                 \* handler returned and what the broker got back
  pubResult,     \* result of the last Router.Publish call
  returns,       \* the Start calls that have returned, in the order they did
  overwritten,   \* a Handle call before Start replaced a different handler
  pubCall,       \* the last Router.Publish call: its arguments and the
                 \* stage the router was in
  \* Contexts (core.Context) and the messages they wrap
  cx,            \* the Context of each delivery in progress, and one built
                 \* directly with NewContext
  msgs,          \* per message: Message.Ack and Message.Nack calls received
  lastOp,        \* the last Context method call and what it returned
  bindCalls,     \* Binder.Bind calls made
  ops,           \* Context method calls made
  \* DefaultMatcher.Match: the call's arguments and its result
  mPattern, mTopic,
  mResult,       \* <<b>> once Match has returned b
  \* a call of a handler composed by applyMiddleware
  chMws,         \* the middleware list
  chPanic,       \* <<i, phase>>: the function at position i of the chain
                 \* panics in that phase; <<0, "before">>: none panics
  chReturn,      \* what the handler function returns if it does
  chOut,         \* the order of execution and the outcome of the call
  \* the broker factory registry (package broker)
  factories,     \* the map factories: a function from names to factories
  regLog,        \* the Register calls made, in the order they held mu
  creating,      \* each Create call: its position, name, what it read from
                 \* the map and its result
  invoked,       \* the factory invocations made: <<creator, factory>>
  \* the broker: which implementation it is, and what an adapter holds
  kind,          \* "Broker": any implementation; or one of the adapters
  requeue,       \* opts.requeueOnNack of the rabbitmq adapter
  resourceCloses,\* how often Close has closed the underlying resources
  adNack,        \* what the consume loop did after the last handler return
  directClose,   \* Close calls made on the broker directly, and the
                 \* result of the last one
  \* the lock of the router
  mu,            \* r.mu: "free", or the goroutine that holds it
  regPc,         \* each goroutine that registers: "idle", or the call it
                 \* is in, holding r.mu
  \* the client library of the broker an adapter wraps
  vendor,        \* per subscription: the calls the delivery in progress, or
                 \* the last one, has received at the client (amqp.Delivery,
                 \* jetstream.Msg, kafka.Reader)
  \* the kafka Broker, statement by statement
  kb,            \* its fields: mu ("free" or the holder), closed, readers,
                 \* and whether the writer is closed
  ksub,          \* each Subscribe call: its position, its reader r ("none",
                 \* "open", "closed"), whether the loop has fetched from it,
                 \* and the result
  kclose         \* each Close call: its position and result

routerVars == <<hasBroker, middlewares, routes, matcher, started>>
callVars == <<pc, result, snapRoutes, snapMws, snapMatcher, errCh, errClosed>>
taskVars == <<task, wrapped, taskErr>>
brokerVars == <<closed, published>>
obsVars == <<lastHandle, subscribeCalls, closeCalls, closeResult, execLog,
            pubResult, returns, overwritten>>
ctxVars == <<cx, msgs, lastOp, bindCalls, ops>>
matchVars == <<mPattern, mTopic, mResult>>
chainVars == <<chMws, chPanic, chReturn, chOut>>
regVars == <<factories, regLog, creating, invoked>>
adVars == <<kind, requeue, resourceCloses, adNack, directClose>>
lockVars == <<mu, regPc>>
\* what neither the router nor the broker touches
kafkaVars == <<kb, ksub, kclose>>
extRest == <<chainVars, regVars, lockVars, kafkaVars>>
extOther == <<extRest, vendor>>
extVars == <<extOther, adVars>>
\* what a Close call leaves alone of these
closeFrame == <<extOther, kind, requeue, adNack, directClose>>
vars == <<routerVars, ctxDone, callVars, taskVars, brokerVars, obsVars,
          pubCall, ctxVars, matchVars, extVars>>

(* ------------------------------------------------------------------ *)
(* Handlers and middleware                                             *)
(* ------------------------------------------------------------------ *)

\* A handler value is the chain of functions a call to it runs through:
\* <<h>> is the handler function h; <<m>> \o next is what middleware m
\* returns for next.
BaseHandler(h) == <<h>>

\* mw(name)(next): runs name:before, next, name:after
Mw(name, next) == <<name>> \o next

\* Calling a handler: the order of execution it produces
RECURSIVE Invoke(_)
Invoke(h) ==
  IF Len(h) = 1 THEN << <<h[1], "handler">> >>
  ELSE << <<h[1], "before">> >> \o Invoke(Tail(h)) \o << <<h[1], "after">> >>

\* a loop that makes the last middleware of the list the outermost one
RECURSIVE applyLoopLastOutermost(_, _, _)
applyLoopLastOutermost(h, mws, i) ==
  IF i >= 1
    THEN applyLoopLastOutermost(Mw(mws[Len(mws) + 1 - i], h), mws, i - 1)
    ELSE h

\* the loop of applyMiddleware: for i := len(mws)-1; i >= 0; i-- { h = mws[i](h) }
RECURSIVE applyLoop(_, _, _)
applyLoop(h, mws, i) ==
  IF i >= 1 THEN applyLoop(Mw(mws[i], h), mws, i - 1) ELSE h

\* a loop that walks the list forwards instead
RECURSIVE applyLoopForward(_, _, _)
applyLoopForward(h, mws, i) ==
  IF i <= Len(mws) THEN applyLoopForward(Mw(mws[i], h), mws, i + 1) ELSE h

applyMiddlewareForward(h, mws) == applyLoopForward(h, mws, 1)

applyMiddleware(h, mws) == applyLoop(h, mws, Len(mws))


(* ------------------------------------------------------------------ *)
(* Initial state: New(b), nothing registered, context live             *)
(* ------------------------------------------------------------------ *)

EmptyMap == [q \in {} |-> <<>>]

\* no call of a Context method yet
NoOp == [op |-> "none", id |-> "none", msg |-> "none", arg |-> <<>>,
         inner |-> NotReturned, result |-> NotReturned]

\* no Context
NoContext == [live |-> FALSE, msg |-> "none", topic |-> "none",
              broker |-> FALSE, binder |-> "none", store |-> EmptyMap]

\* a NewContext whose store is the one another Context holds
NewContextSharedStore(msg, topic, b, binder) ==
  [live |-> TRUE, msg |-> msg, topic |-> topic, broker |-> b,
   binder |-> binder, store |-> cx["direct"].store]

\* NewContext(ctx, msg, topic, b, binder): store: make(map[string]any)
NewContext(msg, topic, b, binder) ==
  [live |-> TRUE, msg |-> msg, topic |-> topic, broker |-> b,
   binder |-> binder, store |-> EmptyMap]

\* no Context exists, no message was acknowledged
ContextInit ==
  /\ cx = [i \in CtxIds |-> NoContext]
  /\ msgs = [m \in Msgs |-> [acks |-> 0, nacks |-> 0]]
  /\ lastOp = NoOp
  /\ bindCalls = 0
  /\ ops = 0

\* no Match call
MatchIdle ==
  /\ mPattern = <<>>
  /\ mTopic = <<>>
  /\ mResult = NotReturned

\* no panic
NoPanic == <<0, "before">>

\* no call of a composed handler
NoOutcome == [order |-> <<>>, result |-> NotReturned]

ChainIdle ==
  /\ chMws = <<>>
  /\ chPanic = NoPanic
  /\ chReturn = Nil
  /\ chOut = NoOutcome

\* no Create call
NoCreate == [pc |-> "idle", name |-> "none", f |-> "none", ok |-> FALSE,
             result |-> NotReturned]

\* factories = make(map[string]Factory)
RegistryInit ==
  /\ factories = EmptyMap
  /\ regLog = <<>>
  /\ creating = [k \in Creators |-> NoCreate]
  /\ invoked = <<>>

\* no delivery has received a call at the client
NoVendorCalls == [p \in Patterns |-> <<>>]

\* no Close call made on the broker directly
NoClose == [calls |-> 0, result |-> NotReturned]

\* a broker of which only the Broker interface is known, open
BrokerInit ==
  /\ kind = "Broker"
  /\ requeue = FALSE
  /\ resourceCloses = 0
  /\ adNack = NoNack
  /\ directClose = NoClose
  /\ vendor = NoVendorCalls

\* r.mu is free, no goroutine is in a call of Use or Handle
LockInit ==
  /\ mu = "free"
  /\ regPc = [a \in Registrars |-> "idle"]

\* kafka.New: a Broker with a writer and no reader; no call of Subscribe
\* or Close yet
KafkaInit ==
  /\ kb = [mu |-> "free", closed |-> FALSE, readers |-> <<>>,
           writerClosed |-> FALSE]
  /\ ksub = [t \in KSubscribers |->
               [pc |-> "idle", reader |-> "none", fetched |-> FALSE,
                result |-> NotReturned]]
  /\ kclose = [x \in KClosers |-> [pc |-> "idle", result |-> NotReturned]]

\* nothing outside the router, its Contexts and the matcher is in use
ExtInit == ChainIdle /\ RegistryInit /\ BrokerInit /\ LockInit /\ KafkaInit

\* no Router.Publish call
NoCall == [stage |-> "none", topic |-> "none", msg |-> "none"]

RouterInit ==
  /\ hasBroker \in BOOLEAN
  /\ middlewares = <<>>
  /\ routes = EmptyMap
  /\ matcher = "DefaultMatcher"
  /\ started = FALSE
  /\ ctxDone = FALSE
  /\ pc = [c \in Callers |-> "idle"]
  /\ result = [c \in Callers |-> NotReturned]
  /\ snapRoutes = [c \in Callers |-> EmptyMap]
  /\ snapMws = [c \in Callers |-> <<>>]
  /\ snapMatcher = [c \in Callers |-> "none"]
  /\ errCh = [c \in Callers |-> <<>>]
  /\ errClosed = [c \in Callers |-> FALSE]
  /\ task = [c \in Callers |-> [p \in Patterns |-> "none"]]
  /\ wrapped = [c \in Callers |-> [p \in Patterns |-> <<>>]]
  /\ taskErr = [c \in Callers |-> [p \in Patterns |-> "none"]]
  /\ closed = FALSE
  /\ published = <<>>
  /\ lastHandle = EmptyMap
  /\ subscribeCalls = [c \in Callers |-> [p \in Patterns |-> <<>>]]
  /\ closeCalls = [c \in Callers |-> 0]
  /\ closeResult = [c \in Callers |-> NotReturned]
  /\ execLog = {}
  /\ pubResult = NotReturned
  /\ returns = <<>>
  /\ overwritten = FALSE
  /\ pubCall = NoCall

Init == RouterInit /\ ContextInit /\ MatchIdle /\ ExtInit

(* ------------------------------------------------------------------ *)
(* Registration: SetMatcher, Use, Handle (each under r.mu)             *)
(* ------------------------------------------------------------------ *)

SetMatcher(m) ==
  /\ matcher' = m
  /\ UNCHANGED <<hasBroker, middlewares, routes, started, ctxDone, callVars,
                 taskVars, brokerVars, obsVars>>
  /\ UNCHANGED <<pubCall, ctxVars, matchVars, extVars>>

Use(m) ==
  /\ Len(middlewares) < MaxMws
  /\ middlewares' = Append(middlewares, m)
  /\ UNCHANGED <<hasBroker, routes, matcher, started, ctxDone, callVars,
                 taskVars, brokerVars, obsVars>>
  /\ UNCHANGED <<pubCall, ctxVars, matchVars, extVars>>

\* a map store that keeps the entry a pattern already has
PutRouteKeepFirst(rt, p, h) ==
  [q \in DOMAIN rt \cup {p} |-> IF q \in DOMAIN rt THEN rt[q] ELSE h]

\* r.routes[topic] = h
PutRoute(rt, p, h) ==
  [q \in DOMAIN rt \cup {p} |-> IF q = p THEN h ELSE rt[q]]

Handle(p, h) ==
  /\ routes' = PutRoute(routes, p, BaseHandler(h))
  /\ lastHandle' = [q \in DOMAIN lastHandle \cup {p} |->
                      IF q = p THEN h ELSE lastHandle[q]]
  /\ overwritten' = (overwritten \/
                     (~started /\ p \in DOMAIN lastHandle /\ lastHandle[p] # h))
  /\ UNCHANGED <<hasBroker, middlewares, matcher, started, ctxDone, callVars,
                 taskVars, brokerVars, subscribeCalls, closeCalls, closeResult,
                 execLog, pubResult, returns>>
  /\ UNCHANGED <<pubCall, ctxVars, matchVars, extVars>>

(* ------------------------------------------------------------------ *)
(* Router.Publish: return r.broker.Publish(ctx, topic, msg)            *)
(* ------------------------------------------------------------------ *)

\* b.closed of an adapter
AdapterClosed == kind \in Adapters /\ closed

\* what Broker.Publish may return: an adapter that is closed returns
\* ErrBrokerClosed (if b.closed { return core.ErrBrokerClosed }), otherwise
\* nil or the error of the write
PublishOutcomes == IF AdapterClosed THEN {ErrBrokerClosed} ELSE PublishResults

\* Broker.Publish of the mock: PublishErr, or the message is recorded
BrokerPublish(t, m, r) ==
  published' = IF r = Nil THEN Append(published, <<t, m>>) ELSE published

\* the stage of the router's life: before Start, while a Start call that
\* passed the guards is running, after it has returned
Stage ==
  IF ~started THEN "new"
  ELSE IF \E c \in Callers : pc[c] = "returned" /\ result[c] # ErrAlreadyStarted
         THEN "returned"
         ELSE "running"

\* a Publish that refuses to publish on a router that is not running
PublishGated(t, m) ==
  /\ Len(published) < MaxPublish
  /\ IF Stage = "running"
       THEN \E r \in PublishOutcomes : BrokerPublish(t, m, r) /\ pubResult' = r
       ELSE pubResult' = <<"ErrNotRunning">> /\ published' = published
  /\ pubCall' = [stage |-> Stage, topic |-> t, msg |-> m]
  /\ UNCHANGED <<routerVars, ctxDone, callVars, taskVars, closed, lastHandle,
                 subscribeCalls, closeCalls, closeResult, execLog, returns,
                 overwritten, ctxVars, matchVars, extVars>>

Publish(t, m) ==
  /\ Len(published) < MaxPublish
  /\ IF hasBroker
       THEN \E r \in PublishOutcomes : BrokerPublish(t, m, r) /\ pubResult' = r
       ELSE \* a method call on a nil interface value
            pubResult' = Panic /\ published' = published
  /\ pubCall' = [stage |-> Stage, topic |-> t, msg |-> m]
  /\ UNCHANGED <<routerVars, ctxDone, callVars, taskVars, closed, lastHandle,
                 subscribeCalls, closeCalls, closeResult, execLog, returns,
                 overwritten, ctxVars, matchVars, extVars>>

\* cancel() of the context given to Start
Cancel ==
  /\ ~ctxDone
  /\ ctxDone' = TRUE
  /\ UNCHANGED <<routerVars, callVars, taskVars, brokerVars, obsVars>>
  /\ UNCHANGED <<pubCall, ctxVars, matchVars, extVars>>


(* ------------------------------------------------------------------ *)
(* Router.Start: the guards and the snapshot, under r.mu               *)
(* ------------------------------------------------------------------ *)

\* a Start call that got past both guards
Passed(c) ==
  /\ pc[c] # "idle"
  /\ result[c] # ErrNoBroker
  /\ result[c] # ErrAlreadyStarted

\* the guard `if r.started` switched off
AlreadyStartedGuardOff == FALSE

\* if r.started
AlreadyStartedGuard == started

\* the guard `if r.broker == nil` switched off
NoBrokerGuardOff == FALSE

\* if r.broker == nil
NoBrokerGuard == ~hasBroker

Return(c, r) ==
  /\ pc' = [pc EXCEPT ![c] = "returned"]
  /\ result' = [result EXCEPT ![c] = r]
  /\ returns' = Append(returns, c)

\* what Close may return: nil if the adapter is closed already; otherwise
\* nil or, but for nats, the first error of the resources it closes
CloseOutcomes ==
  IF AdapterClosed \/ kind = "nats" THEN {Nil} ELSE CloseResults

\* a Close without the guard `if b.closed { return nil }`
CloseEffectUnguarded(r) ==
  /\ r \in (IF kind = "nats" THEN {Nil} ELSE CloseResults)
  /\ closed' = TRUE
  /\ resourceCloses' = resourceCloses + 1

\* Close of an adapter: if b.closed { return nil }; b.closed = true; the
\* writer and the readers, the channel and the connection, or the
\* consumers and the connection are closed
CloseEffect(r) ==
  /\ r \in CloseOutcomes
  /\ closed' = TRUE
  /\ resourceCloses' = IF closed THEN resourceCloses ELSE resourceCloses + 1

\* r.broker.Close() of the mock: closed = true; an adapter may report an
\* error of the resources it closes
BrokerClose(c, r) ==
  /\ CloseEffect(r)
  /\ closeCalls' = [closeCalls EXCEPT ![c] = @ + 1]
  /\ closeResult' = [closeResult EXCEPT ![c] = r]

StartNoBroker(c) ==
  /\ pc[c] = "idle"
  /\ NoBrokerGuard
  /\ Return(c, ErrNoBroker)
  /\ UNCHANGED <<routerVars, ctxDone, snapRoutes, snapMws, snapMatcher, errCh,
                 errClosed, taskVars, brokerVars, lastHandle, subscribeCalls,
                 closeCalls, closeResult, execLog, pubResult, overwritten>>
  /\ UNCHANGED <<pubCall, ctxVars, matchVars, extVars>>

\* a Start that closes the broker whenever it returns a guard's error
StartAlreadyStartedClosing(c) ==
  /\ pc[c] = "idle"
  /\ ~NoBrokerGuard
  /\ AlreadyStartedGuard
  /\ Return(c, ErrAlreadyStarted)
  /\ \E r \in CloseResults : BrokerClose(c, r)
  /\ UNCHANGED <<routerVars, ctxDone, snapRoutes, snapMws, snapMatcher, errCh,
                 errClosed, taskVars, published, lastHandle, subscribeCalls,
                 execLog, pubResult, overwritten>>
  /\ UNCHANGED <<pubCall, ctxVars, matchVars, closeFrame>>

StartAlreadyStarted(c) ==
  /\ pc[c] = "idle"
  /\ ~NoBrokerGuard
  /\ AlreadyStartedGuard
  /\ Return(c, ErrAlreadyStarted)
  /\ UNCHANGED <<routerVars, ctxDone, snapRoutes, snapMws, snapMatcher, errCh,
                 errClosed, taskVars, brokerVars, lastHandle, subscribeCalls,
                 closeCalls, closeResult, execLog, pubResult, overwritten>>
  /\ UNCHANGED <<pubCall, ctxVars, matchVars, extVars>>

\* r.started = true, then the copies of r.routes, r.middlewares, r.matcher
StartSnapshot(c) ==
  /\ pc[c] = "idle"
  /\ ~NoBrokerGuard
  /\ ~AlreadyStartedGuard
  /\ started' = TRUE
  /\ snapRoutes' = [snapRoutes EXCEPT ![c] = routes]
  /\ snapMws' = [snapMws EXCEPT ![c] = middlewares]
  /\ snapMatcher' = [snapMatcher EXCEPT ![c] = matcher]
  /\ pc' = [pc EXCEPT ![c] = "spawn"]
  /\ UNCHANGED <<hasBroker, middlewares, routes, matcher, ctxDone, result,
                 errCh, errClosed, taskVars, brokerVars, obsVars>>
  /\ UNCHANGED <<pubCall, ctxVars, matchVars, extVars>>

(* ------------------------------------------------------------------ *)
(* Router.Start: one subscription goroutine per snapshotted route      *)
(* ------------------------------------------------------------------ *)

\* a loop whose closures all see the handler of one route
WrappedForShared(c, p) ==
  applyMiddleware(snapRoutes[c][CHOOSE q \in DOMAIN snapRoutes[c] : TRUE],
                  snapMws[c])

\* wrapped := applyMiddleware(handler, mws), for pattern, handler of routes
WrappedFor(c, p) == applyMiddleware(snapRoutes[c][p], snapMws[c])

\* the for loop over routes: wg.Add(1); go func(p, h) {...}(pattern, dispatchHandler)
StartSpawn(c) ==
  /\ pc[c] = "spawn"
  /\ wrapped' = [wrapped EXCEPT ![c] =
                   [p \in Patterns |->
                      IF p \in DOMAIN snapRoutes[c] THEN WrappedFor(c, p)
                      ELSE wrapped[c][p]]]
  /\ task' = [task EXCEPT ![c] =
                [p \in Patterns |->
                   IF p \in DOMAIN snapRoutes[c] THEN "spawned" ELSE task[c][p]]]
  /\ pc' = [pc EXCEPT ![c] = "select"]
  /\ UNCHANGED <<routerVars, ctxDone, result, snapRoutes, snapMws, snapMatcher,
                 errCh, errClosed, taskErr, brokerVars, obsVars>>
  /\ UNCHANGED <<pubCall, ctxVars, matchVars, extVars>>

\* what the router's registrations of this moment give for pattern p
LiveHandler(p) == applyMiddleware(routes[p], middlewares)

\* since the snapshot of Start call c, the handler of p was replaced and a
\* middleware was added
Stale(c, p) == routes[p] # snapRoutes[c][p] /\ middlewares # snapMws[c]

\* a dispatch that looks the route up in the router at delivery time
DispatchHandlerLive(c, p) == LiveHandler(p)

\* dispatchHandler: return wrapped(ctx, msg)
DispatchHandler(c, p) == wrapped[c][p]

\* Subscribe of an adapter that is closed:
\* if b.closed { return core.ErrBrokerClosed }
SubscribeClosed(c, p) ==
  /\ task[c][p] = "spawned"
  /\ hasBroker
  /\ AdapterClosed
  /\ subscribeCalls' = [subscribeCalls EXCEPT ![c][p] = Append(@, wrapped[c][p])]
  /\ task' = [task EXCEPT ![c][p] = "failed"]
  /\ taskErr' = [taskErr EXCEPT ![c][p] = BrokerClosedErr]
  /\ UNCHANGED <<routerVars, ctxDone, callVars, wrapped, brokerVars, lastHandle,
                 closeCalls, closeResult, execLog, pubResult, returns,
                 overwritten>>
  /\ UNCHANGED <<pubCall, ctxVars, matchVars, extVars>>

\* r.broker.Subscribe(ctx, p, h) returns an error at once
SubscribeFails(c, p) ==
  /\ task[c][p] = "spawned"
  /\ hasBroker
  /\ ~AdapterClosed
  /\ subscribeCalls' = [subscribeCalls EXCEPT ![c][p] = Append(@, wrapped[c][p])]
  /\ task' = [task EXCEPT ![c][p] = "failed"]
  /\ taskErr' = [taskErr EXCEPT ![c][p] = SubscribeErr]
  /\ UNCHANGED <<routerVars, ctxDone, callVars, wrapped, brokerVars, lastHandle,
                 closeCalls, closeResult, execLog, pubResult, returns,
                 overwritten>>
  /\ UNCHANGED <<pubCall, ctxVars, matchVars, extVars>>

\* r.broker.Subscribe(ctx, p, h) registers the handler and starts consuming
SubscribeOk(c, p) ==
  /\ task[c][p] = "spawned"
  /\ hasBroker
  /\ ~AdapterClosed
  /\ subscribeCalls' = [subscribeCalls EXCEPT ![c][p] = Append(@, wrapped[c][p])]
  /\ task' = [task EXCEPT ![c][p] = "consuming"]
  /\ UNCHANGED <<routerVars, ctxDone, callVars, wrapped, taskErr, brokerVars,
                 lastHandle, closeCalls, closeResult, execLog, pubResult,
                 returns, overwritten>>
  /\ UNCHANGED <<pubCall, ctxVars, matchVars, extVars>>

\* the broker hands a delivery to the handler of the subscription
\* the Context the bridging handler builds for a delivery: the message in
\* a fresh Context with the snapshotted broker, the default binder and the
\* pattern of the subscription
BridgeContext(c, p, m) == NewContext(m, p, hasBroker, "JSONBinder")

\* a dispatch that asks the snapshotted matcher before it runs the handler
DeliverFiltered(c, p, m) ==
  /\ task[c][p] = "consuming"
  /\ snapMatcher[c] = "DefaultMatcher"
  /\ cx' = [cx EXCEPT ![p] = BridgeContext(c, p, m)]
  /\ vendor' = [vendor EXCEPT ![p] = <<>>]
  /\ UNCHANGED <<pubCall, msgs, lastOp, bindCalls, ops, matchVars, extRest,
                 adVars>>
  /\ execLog' = {[caller |-> c, pattern |-> p, msg |-> m,
                  order |-> Invoke(DispatchHandler(c, p)),
                  stale |-> Stale(c, p),
                  handler |-> NotReturned, adapter |-> NotReturned]}
  /\ task' = [task EXCEPT ![c][p] = "handling"]
  /\ UNCHANGED <<routerVars, ctxDone, callVars, wrapped, taskErr, brokerVars,
                 lastHandle, subscribeCalls, closeCalls, closeResult, pubResult,
                 returns, overwritten>>

Deliver(c, p, m) ==
  /\ task[c][p] = "consuming"
  /\ cx' = [cx EXCEPT ![p] = BridgeContext(c, p, m)]
  /\ vendor' = [vendor EXCEPT ![p] = <<>>]
  /\ UNCHANGED <<pubCall, msgs, lastOp, bindCalls, ops, matchVars, extRest,
                 adVars>>
  /\ execLog' = {[caller |-> c, pattern |-> p, msg |-> m,
                  order |-> Invoke(DispatchHandler(c, p)),
                  stale |-> Stale(c, p),
                  handler |-> NotReturned, adapter |-> NotReturned]}
  /\ task' = [task EXCEPT ![c][p] = "handling"]
  /\ UNCHANGED <<routerVars, ctxDone, callVars, wrapped, taskErr, brokerVars,
                 lastHandle, subscribeCalls, closeCalls, closeResult, pubResult,
                 returns, overwritten>>

\* kafka consumeLoop: if err := handler(ctx, msg); err != nil { continue }:
\* the offset is not committed, nothing is called
KafkaOnResult(r) == NoNack

\* rabbitmq consumeLoop: if err := handler(ctx, msg); err != nil {
\* _ = d.Nack(false, b.opts.requeueOnNack); continue }
RabbitOnResult(r) == IF r # Nil THEN Nacked(requeue) ELSE NoNack

\* nats Consume callback: if err := handler(ctx, msg); err != nil {
\* _ = jsMsg.Nak() }
NatsOnResult(r) == IF r # Nil THEN Naked ELSE NoNack

\* a consume loop that acknowledges the message when the handler returns nil
OnHandlerResultAcking(r) ==
  IF r = Nil THEN <<"Ack">>
  ELSE CASE kind = "rabbitmq" -> Nacked(requeue)
         [] kind = "nats" -> Naked
         [] OTHER -> NoNack

\* what the consume loop of the broker does once the handler has returned
\* r; mock.Broker.Deliver returns r and does nothing else
OnHandlerResult(r) ==
  CASE kind = "kafka" -> KafkaOnResult(r)
    [] kind = "rabbitmq" -> RabbitOnResult(r)
    [] kind = "nats" -> NatsOnResult(r)
    [] OTHER -> NoNack

\* the calls the consume loop makes at the client once the handler has
\* returned r
LoopCalls(r) ==
  IF OnHandlerResult(r) = NoNack THEN <<>> ELSE <<OnHandlerResult(r)>>

\* a dispatchHandler that drops the error of the wrapped handler
DispatchResultDropped(r) == Nil

\* dispatchHandler: return wrapped(ctx, msg)
DispatchResult(r) == r

\* a consume loop that ends the subscription with the handler's error
HandlerReturnsFailing(c, p, r) ==
  /\ task[c][p] = "handling"
  /\ task' = [task EXCEPT ![c][p] = IF r = Nil THEN "consuming" ELSE "failed"]
  /\ taskErr' = [taskErr EXCEPT ![c][p] = IF r = Nil THEN @ ELSE r[1]]
  /\ execLog' = {IF e.caller = c /\ e.pattern = p
                    THEN [e EXCEPT !.handler = r, !.adapter = DispatchResult(r)]
                    ELSE e : e \in execLog}
  /\ cx' = [cx EXCEPT ![p] = NoContext]
  /\ adNack' = OnHandlerResult(r)
  /\ vendor' = [vendor EXCEPT ![p] = @ \o LoopCalls(r)]
  /\ UNCHANGED <<pubCall, msgs, lastOp, bindCalls, ops, matchVars, extRest,
                 kind, requeue, resourceCloses, directClose>>
  /\ UNCHANGED <<routerVars, ctxDone, callVars, wrapped, brokerVars,
                 lastHandle, subscribeCalls, closeCalls, closeResult, pubResult,
                 returns, overwritten>>

\* the wrapped handler returns r; the dispatch handler returns to the
\* consume loop, and the Context of the delivery is gone
HandlerReturns(c, p, r) ==
  /\ task[c][p] = "handling"
  /\ task' = [task EXCEPT ![c][p] = "consuming"]
  /\ execLog' = {IF e.caller = c /\ e.pattern = p
                    THEN [e EXCEPT !.handler = r, !.adapter = DispatchResult(r)]
                    ELSE e : e \in execLog}
  /\ cx' = [cx EXCEPT ![p] = NoContext]
  /\ adNack' = OnHandlerResult(r)
  /\ vendor' = [vendor EXCEPT ![p] = @ \o LoopCalls(r)]
  /\ UNCHANGED <<pubCall, msgs, lastOp, bindCalls, ops, matchVars, extRest,
                 kind, requeue, resourceCloses, directClose>>
  /\ UNCHANGED <<routerVars, ctxDone, callVars, wrapped, taskErr, brokerVars,
                 lastHandle, subscribeCalls, closeCalls, closeResult, pubResult,
                 returns, overwritten>>

\* Subscribe returns nil once the context is done
SubscribeReturns(c, p) ==
  /\ task[c][p] = "consuming"
  /\ ctxDone
  /\ task' = [task EXCEPT ![c][p] = "done"]
  /\ UNCHANGED <<routerVars, ctxDone, callVars, wrapped, taskErr, brokerVars,
                 obsVars>>
  /\ UNCHANGED <<pubCall, ctxVars, matchVars, extVars>>

\* Subscribe returns nil with the context live (a closed delivery channel)
ConsumeEnds(c, p) ==
  /\ task[c][p] = "consuming"
  /\ ~ctxDone
  /\ task' = [task EXCEPT ![c][p] = "done"]
  /\ UNCHANGED <<routerVars, ctxDone, callVars, wrapped, taskErr, brokerVars,
                 obsVars>>
  /\ UNCHANGED <<pubCall, ctxVars, matchVars, extVars>>

\* Subscribe returns an error from its consume loop (a failed fetch)
ConsumeFails(c, p) ==
  /\ task[c][p] = "consuming"
  /\ ~ctxDone
  /\ task' = [task EXCEPT ![c][p] = "failed"]
  /\ taskErr' = [taskErr EXCEPT ![c][p] = FetchErr]
  /\ UNCHANGED <<routerVars, ctxDone, callVars, wrapped, brokerVars, obsVars>>
  /\ UNCHANGED <<pubCall, ctxVars, matchVars, extVars>>

\* errCh <- fmt.Errorf("eventmux: subscribe %q: %w", p, err), then wg.Done()
SendErr(c, p) ==
  /\ task[c][p] = "failed"
  /\ Len(errCh[c]) < Cardinality(DOMAIN snapRoutes[c])
  /\ errCh' = [errCh EXCEPT ![c] = Append(@, SubscribeError(p, taskErr[c][p]))]
  /\ task' = [task EXCEPT ![c][p] = "done"]
  /\ UNCHANGED <<routerVars, ctxDone, pc, result, snapRoutes, snapMws,
                 snapMatcher, errClosed, wrapped, taskErr, brokerVars, obsVars>>
  /\ UNCHANGED <<pubCall, ctxVars, matchVars, extVars>>

\* a closer that does not wait for the last subscription task
WaitCloseEarly(c) ==
  /\ pc[c] \in {"select", "waitctx", "returned"}
  /\ Passed(c)
  /\ ~errClosed[c]
  /\ \E p \in DOMAIN snapRoutes[c] : task[c][p] = "done"
  /\ errClosed' = [errClosed EXCEPT ![c] = TRUE]
  /\ UNCHANGED <<routerVars, ctxDone, pc, result, snapRoutes, snapMws,
                 snapMatcher, errCh, taskVars, brokerVars, obsVars>>
  /\ UNCHANGED <<pubCall, ctxVars, matchVars, extVars>>

\* go func() { wg.Wait(); close(errCh) }()
WaitClose(c) ==
  /\ pc[c] \in {"select", "waitctx", "returned"}
  /\ Passed(c)
  /\ ~errClosed[c]
  /\ \A p \in DOMAIN snapRoutes[c] : task[c][p] = "done"
  /\ errClosed' = [errClosed EXCEPT ![c] = TRUE]
  /\ UNCHANGED <<routerVars, ctxDone, pc, result, snapRoutes, snapMws,
                 snapMatcher, errCh, taskVars, brokerVars, obsVars>>
  /\ UNCHANGED <<pubCall, ctxVars, matchVars, extVars>>


(* ------------------------------------------------------------------ *)
(* Router.Start: the select on ctx.Done() and errCh                    *)
(* ------------------------------------------------------------------ *)

\* a Start that waits for its subscription tasks before it closes the broker
StartCtxDoneAfterTasks(c) ==
  /\ pc[c] = "select"
  /\ ctxDone
  /\ \A p \in DOMAIN snapRoutes[c] : task[c][p] = "done"
  /\ \E r \in CloseResults : BrokerClose(c, r) /\ Return(c, r)
  /\ UNCHANGED <<routerVars, ctxDone, snapRoutes, snapMws, snapMatcher, errCh,
                 errClosed, taskVars, published, lastHandle, subscribeCalls,
                 execLog, pubResult, overwritten>>
  /\ UNCHANGED <<pubCall, ctxVars, matchVars, closeFrame>>

\* a Start that clears r.started when it returns
StartCtxDoneRestartable(c) ==
  /\ pc[c] = "select"
  /\ ctxDone
  /\ \E r \in CloseResults : BrokerClose(c, r) /\ Return(c, r)
  /\ started' = FALSE
  /\ UNCHANGED <<hasBroker, middlewares, routes, matcher, ctxDone, snapRoutes,
                 snapMws, snapMatcher, errCh, errClosed, taskVars, published,
                 lastHandle, subscribeCalls, execLog, pubResult, overwritten>>
  /\ UNCHANGED <<pubCall, ctxVars, matchVars, closeFrame>>

\* case <-ctx.Done(): return r.broker.Close()
StartCtxDone(c) ==
  /\ pc[c] = "select"
  /\ ctxDone
  /\ \E r \in CloseResults : BrokerClose(c, r) /\ Return(c, r)
  /\ UNCHANGED <<routerVars, ctxDone, snapRoutes, snapMws, snapMatcher, errCh,
                 errClosed, taskVars, published, lastHandle, subscribeCalls,
                 execLog, pubResult, overwritten>>
  /\ UNCHANGED <<pubCall, ctxVars, matchVars, closeFrame>>

\* a Start that closes the broker before it returns a subscription error
StartRecvErrClosing(c) ==
  /\ pc[c] = "select"
  /\ errCh[c] # <<>>
  /\ errCh' = [errCh EXCEPT ![c] = Tail(@)]
  /\ Return(c, Head(errCh[c]))
  /\ \E r \in CloseResults : BrokerClose(c, r)
  /\ UNCHANGED <<routerVars, ctxDone, snapRoutes, snapMws, snapMatcher,
                 errClosed, taskVars, published, lastHandle, subscribeCalls,
                 execLog, pubResult, overwritten>>
  /\ UNCHANGED <<pubCall, ctxVars, matchVars, closeFrame>>

\* case err := <-errCh: if err != nil { return err }
StartRecvErr(c) ==
  /\ pc[c] = "select"
  /\ errCh[c] # <<>>
  /\ errCh' = [errCh EXCEPT ![c] = Tail(@)]
  /\ Return(c, Head(errCh[c]))
  /\ UNCHANGED <<routerVars, ctxDone, snapRoutes, snapMws, snapMatcher,
                 errClosed, taskVars, brokerVars, lastHandle, subscribeCalls,
                 closeCalls, closeResult, execLog, pubResult, overwritten>>
  /\ UNCHANGED <<pubCall, ctxVars, matchVars, extVars>>

\* a receive from the closed channel that returns nil at once
StartRecvClosedReturns(c) ==
  /\ pc[c] = "select"
  /\ errCh[c] = <<>>
  /\ errClosed[c]
  /\ Return(c, Nil)
  /\ UNCHANGED <<routerVars, ctxDone, snapRoutes, snapMws, snapMatcher, errCh,
                 errClosed, taskVars, brokerVars, lastHandle, subscribeCalls,
                 closeCalls, closeResult, execLog, pubResult, overwritten>>
  /\ UNCHANGED <<pubCall, ctxVars, matchVars, extVars>>

\* case err := <-errCh with the channel closed and empty: err is nil, and
\* Start goes on to wait for the context
StartRecvClosed(c) ==
  /\ pc[c] = "select"
  /\ errCh[c] = <<>>
  /\ errClosed[c]
  /\ pc' = [pc EXCEPT ![c] = "waitctx"]
  /\ UNCHANGED <<routerVars, ctxDone, result, snapRoutes, snapMws, snapMatcher,
                 errCh, errClosed, taskVars, brokerVars, obsVars>>
  /\ UNCHANGED <<pubCall, ctxVars, matchVars, extVars>>

\* <-ctx.Done(); return r.broker.Close()
StartWaitCtx(c) ==
  /\ pc[c] = "waitctx"
  /\ ctxDone
  /\ \E r \in CloseResults : BrokerClose(c, r) /\ Return(c, r)
  /\ UNCHANGED <<routerVars, ctxDone, snapRoutes, snapMws, snapMatcher, errCh,
                 errClosed, taskVars, published, lastHandle, subscribeCalls,
                 execLog, pubResult, overwritten>>
  /\ UNCHANGED <<pubCall, ctxVars, matchVars, closeFrame>>

\* b.Close() called on the broker directly
CloseCall ==
  /\ directClose.calls < MaxClose
  /\ \E r \in CloseResults :
       /\ CloseEffect(r)
       /\ directClose' = [calls |-> directClose.calls + 1, result |-> r]
  /\ UNCHANGED <<routerVars, ctxDone, callVars, taskVars, published, obsVars,
                 pubCall, ctxVars, matchVars, extOther, kind, requeue, adNack>>

(* ------------------------------------------------------------------ *)
(* r.mu: Use, Handle and the head of Start, statement by statement     *)
(* ------------------------------------------------------------------ *)

\* what no step of a registration or of the head of Start changes
LockFrame ==
  UNCHANGED <<hasBroker, ctxDone, errCh, errClosed, taskVars, brokerVars,
              subscribeCalls, closeCalls, closeResult, execLog, pubResult,
              pubCall, ctxVars, matchVars, chainVars, regVars, adVars, vendor,
              kafkaVars>>

\* Use: r.mu.Lock()
UseLock(a) ==
  /\ regPc[a] = "idle"
  /\ Len(middlewares) < MaxMws
  /\ mu = "free"
  /\ mu' = a
  /\ regPc' = [regPc EXCEPT ![a] = "Use"]
  /\ UNCHANGED <<routerVars, pc, result, snapRoutes, snapMws, snapMatcher,
                 lastHandle, returns, overwritten>>
  /\ LockFrame

\* Use: r.middlewares = append(r.middlewares, m), and the deferred Unlock
UseAppend(a, m) ==
  /\ regPc[a] = "Use"
  /\ middlewares' = Append(middlewares, m)
  /\ mu' = "free"
  /\ regPc' = [regPc EXCEPT ![a] = "idle"]
  /\ UNCHANGED <<routes, matcher, started, pc, result, snapRoutes, snapMws,
                 snapMatcher, lastHandle, returns, overwritten>>
  /\ LockFrame

\* Handle: r.mu.Lock()
HandleLock(a) ==
  /\ regPc[a] = "idle"
  /\ mu = "free"
  /\ mu' = a
  /\ regPc' = [regPc EXCEPT ![a] = "Handle"]
  /\ UNCHANGED <<routerVars, pc, result, snapRoutes, snapMws, snapMatcher,
                 lastHandle, returns, overwritten>>
  /\ LockFrame

\* Handle: r.routes[topic] = h, and the deferred Unlock
HandleStore(a, p, h) ==
  /\ regPc[a] = "Handle"
  /\ routes' = PutRoute(routes, p, BaseHandler(h))
  /\ lastHandle' = [q \in DOMAIN lastHandle \cup {p} |->
                      IF q = p THEN h ELSE lastHandle[q]]
  /\ overwritten' = (overwritten \/
                     (~started /\ p \in DOMAIN lastHandle /\ lastHandle[p] # h))
  /\ mu' = "free"
  /\ regPc' = [regPc EXCEPT ![a] = "idle"]
  /\ UNCHANGED <<middlewares, matcher, started, pc, result, snapRoutes,
                 snapMws, snapMatcher, returns>>
  /\ LockFrame

\* a Start that does not wait for r.mu
StartLockFree(c) ==
  /\ pc[c] = "idle"
  /\ pc' = [pc EXCEPT ![c] = "guards"]
  /\ UNCHANGED <<routerVars, result, snapRoutes, snapMws, snapMatcher,
                 lastHandle, returns, overwritten, mu, regPc>>
  /\ LockFrame

\* Start: r.mu.Lock()
StartLock(c) ==
  /\ pc[c] = "idle"
  /\ mu = "free"
  /\ mu' = c
  /\ pc' = [pc EXCEPT ![c] = "guards"]
  /\ UNCHANGED <<routerVars, result, snapRoutes, snapMws, snapMatcher,
                 lastHandle, returns, overwritten, regPc>>
  /\ LockFrame

\* Start: a guard holds: r.mu.Unlock(); return ErrNoBroker or
\* ErrAlreadyStarted
StartRejected(c) ==
  /\ pc[c] = "guards"
  /\ NoBrokerGuard \/ AlreadyStartedGuard
  /\ Return(c, IF NoBrokerGuard THEN ErrNoBroker ELSE ErrAlreadyStarted)
  /\ mu' = "free"
  /\ UNCHANGED <<routerVars, snapRoutes, snapMws, snapMatcher, lastHandle,
                 overwritten, regPc>>
  /\ LockFrame

\* Start: r.started = true
StartMark(c) ==
  /\ pc[c] = "guards"
  /\ ~NoBrokerGuard
  /\ ~AlreadyStartedGuard
  /\ started' = TRUE
  /\ pc' = [pc EXCEPT ![c] = "copyroutes"]
  /\ UNCHANGED <<middlewares, routes, matcher, result, snapRoutes, snapMws,
                 snapMatcher, lastHandle, returns, overwritten, mu, regPc>>
  /\ LockFrame

\* Start: for k, v := range r.routes { routes[k] = v }
StartCopyRoutes(c) ==
  /\ pc[c] = "copyroutes"
  /\ snapRoutes' = [snapRoutes EXCEPT ![c] = routes]
  /\ pc' = [pc EXCEPT ![c] = "copymws"]
  /\ UNCHANGED <<routerVars, result, snapMws, snapMatcher, lastHandle,
                 returns, overwritten, mu, regPc>>
  /\ LockFrame

\* Start: copy(mws, r.middlewares)
StartCopyMws(c) ==
  /\ pc[c] = "copymws"
  /\ snapMws' = [snapMws EXCEPT ![c] = middlewares]
  /\ pc' = [pc EXCEPT ![c] = "unlock"]
  /\ UNCHANGED <<routerVars, result, snapRoutes, snapMatcher, lastHandle,
                 returns, overwritten, mu, regPc>>
  /\ LockFrame

\* Start: matcher := r.matcher; r.mu.Unlock()
StartUnlock(c) ==
  /\ pc[c] = "unlock"
  /\ snapMatcher' = [snapMatcher EXCEPT ![c] = matcher]
  /\ mu' = "free"
  /\ pc' = [pc EXCEPT ![c] = "spawn"]
  /\ UNCHANGED <<routerVars, result, snapRoutes, snapMws, lastHandle,
                 returns, overwritten, regPc>>
  /\ LockFrame

(* ------------------------------------------------------------------ *)
(* plugins/kafka: Subscribe and Close, statement by statement          *)
(* ------------------------------------------------------------------ *)

\* what no step of the kafka Broker changes
KafkaFrame ==
  UNCHANGED <<routerVars, ctxDone, callVars, taskVars, brokerVars, obsVars,
              pubCall, ctxVars, matchVars, chainVars, regVars, lockVars,
              vendor, adVars>>

\* Subscribe: r := kafka.NewReader(cfg)
KSubNewReader(t) ==
  /\ ksub[t].pc = "idle"
  /\ ksub' = [ksub EXCEPT ![t].pc = "created", ![t].reader = "open"]
  /\ UNCHANGED <<kb, kclose>>
  /\ KafkaFrame

\* Subscribe: b.mu.Lock()
KSubLock(t) ==
  /\ ksub[t].pc = "created"
  /\ kb.mu = "free"
  /\ kb' = [kb EXCEPT !.mu = t]
  /\ ksub' = [ksub EXCEPT ![t].pc = "locked"]
  /\ UNCHANGED kclose
  /\ KafkaFrame

\* Subscribe: if b.closed { b.mu.Unlock()
KSubClosedUnlock(t) ==
  /\ ksub[t].pc = "locked"
  /\ kb.closed
  /\ kb' = [kb EXCEPT !.mu = "free"]
  /\ ksub' = [ksub EXCEPT ![t].pc = "closing"]
  /\ UNCHANGED kclose
  /\ KafkaFrame

\* Subscribe: r.Close(); return core.ErrBrokerClosed }
KSubCloseReader(t) ==
  /\ ksub[t].pc = "closing"
  /\ ksub' = [ksub EXCEPT ![t].pc = "returned", ![t].reader = "closed",
                          ![t].result = ErrBrokerClosed]
  /\ UNCHANGED <<kb, kclose>>
  /\ KafkaFrame

\* a Subscribe that adds its reader without looking at b.closed
KSubAppendUnchecked(t) ==
  /\ ksub[t].pc = "locked"
  /\ kb' = [kb EXCEPT !.readers = Append(@, t), !.mu = "free"]
  /\ ksub' = [ksub EXCEPT ![t].pc = "consuming"]
  /\ UNCHANGED kclose
  /\ KafkaFrame

\* Subscribe: b.readers = append(b.readers, r); b.mu.Unlock()
KSubAppend(t) ==
  /\ ksub[t].pc = "locked"
  /\ ~kb.closed
  /\ kb' = [kb EXCEPT !.readers = Append(@, t), !.mu = "free"]
  /\ ksub' = [ksub EXCEPT ![t].pc = "consuming"]
  /\ UNCHANGED kclose
  /\ KafkaFrame

\* consumeLoop: raw, err := r.FetchMessage(ctx) of an open reader
KFetch(t) ==
  /\ ksub[t].pc = "consuming"
  /\ ksub[t].reader = "open"
  /\ ~ksub[t].fetched
  /\ ksub' = [ksub EXCEPT ![t].fetched = TRUE]
  /\ UNCHANGED <<kb, kclose>>
  /\ KafkaFrame

\* consumeLoop: FetchMessage of a closed reader fails:
\* return fmt.Errorf("eventmux/kafka: fetch: %w", err)
KFetchFails(t) ==
  /\ ksub[t].pc = "consuming"
  /\ ksub[t].reader = "closed"
  /\ ksub' = [ksub EXCEPT ![t].pc = "returned", ![t].result = <<FetchErr>>]
  /\ UNCHANGED <<kb, kclose>>
  /\ KafkaFrame

\* consumeLoop: FetchMessage fails because the context is done:
\* if ctx.Err() != nil { return nil }; the reader stays as it is
KLoopReturns(t) ==
  /\ ksub[t].pc = "consuming"
  /\ ksub' = [ksub EXCEPT ![t].pc = "returned", ![t].result = Nil]
  /\ UNCHANGED <<kb, kclose>>
  /\ KafkaFrame

\* Close: b.mu.Lock()
KCloseLock(x) ==
  /\ kclose[x].pc = "idle"
  /\ kb.mu = "free"
  /\ kb' = [kb EXCEPT !.mu = x]
  /\ kclose' = [kclose EXCEPT ![x].pc = "locked"]
  /\ UNCHANGED ksub
  /\ KafkaFrame

\* Close: if b.closed { return nil }, and the deferred Unlock
KCloseAlready(x) ==
  /\ kclose[x].pc = "locked"
  /\ kb.closed
  /\ kb' = [kb EXCEPT !.mu = "free"]
  /\ kclose' = [kclose EXCEPT ![x].pc = "done", ![x].result = Nil]
  /\ UNCHANGED ksub
  /\ KafkaFrame

\* Close: b.closed = true; b.writer.Close()
KCloseMark(x) ==
  /\ kclose[x].pc = "locked"
  /\ ~kb.closed
  /\ kb' = [kb EXCEPT !.closed = TRUE, !.writerClosed = TRUE]
  /\ kclose' = [kclose EXCEPT ![x].pc = "readers"]
  /\ UNCHANGED ksub
  /\ KafkaFrame

\* Close: for _, r := range b.readers { r.Close() }; the first error or
\* nil is returned, and the deferred Unlock
KCloseReaders(x) ==
  /\ kclose[x].pc = "readers"
  /\ ksub' = [t \in KSubscribers |->
                IF \E k \in 1..Len(kb.readers) : kb.readers[k] = t
                  THEN [ksub[t] EXCEPT !.reader = "closed"]
                  ELSE ksub[t]]
  /\ kb' = [kb EXCEPT !.mu = "free"]
  /\ \E r \in CloseResults :
       kclose' = [kclose EXCEPT ![x].pc = "done", ![x].result = r]
  /\ KafkaFrame

(* ------------------------------------------------------------------ *)
(* Context: NewContext and the methods of eventContext                 *)
(* ------------------------------------------------------------------ *)

\* what no Context method changes
ContextFrame ==
  UNCHANGED <<routerVars, ctxDone, callVars, taskVars, closed, obsVars,
              pubCall, matchVars, extVars>>

\* a call of method op of Context i with arguments arg: inner is what the
\* call it delegates to returned, r what the method returns
Called(op, i, arg, inner, r) ==
  /\ lastOp' = [op |-> op, id |-> i, msg |-> cx[i].msg, arg |-> arg,
                inner |-> inner, result |-> r]
  /\ ops' = ops + 1

\* a caller of NewContext builds a Context of its own
NewContextCall(m, t, b, binder) ==
  /\ cx' = [cx EXCEPT !["direct"] = NewContext(m, t, b, binder)]
  /\ UNCHANGED <<msgs, lastOp, bindCalls, ops, published>>
  /\ ContextFrame

\* Message.Ack: the message records the call (Acked = true)
MessageAck(m) == msgs' = [msgs EXCEPT ![m].acks = @ + 1]

\* Message.Nack: the message records the call (Nacked = true)
MessageNack(m) == msgs' = [msgs EXCEPT ![m].nacks = @ + 1]

\* what Ack of the message type of the broker calls at the client: kafka
\* m.reader.CommitMessages(m.ctx, m.raw), rabbitmq m.delivery.Ack(false),
\* nats m.msg.Ack(); the message of another broker calls nothing here
MessageAckCalls ==
  CASE kind = "kafka" -> << <<"Commit">> >>
    [] kind = "rabbitmq" -> << <<"Ack", FALSE>> >>
    [] kind = "nats" -> << <<"Ack">> >>
    [] OTHER -> <<>>

\* what Nack of the message type calls at the client: kafka nothing
\* (return nil), rabbitmq m.delivery.Nack(false, m.requeue), nats m.msg.Nak()
MessageNackCalls ==
  CASE kind = "kafka" -> <<>>
    [] kind = "rabbitmq" -> <<Nacked(requeue)>>
    [] kind = "nats" -> <<Naked>>
    [] OTHER -> <<>>

\* the client receives calls for the delivery the Context i wraps; a
\* Context built directly wraps no delivery of a subscription
ClientCalls(i, calls) ==
  vendor' = IF i \in Patterns THEN [vendor EXCEPT ![i] = @ \o calls] ELSE vendor

\* what no call of Ack or Nack of a Context changes
AckFrame ==
  UNCHANGED <<routerVars, ctxDone, callVars, taskVars, closed, obsVars,
              pubCall, matchVars, extRest, adVars>>

\* a Nack that calls Message.Ack
NackCallsAck(i) ==
  /\ cx[i].live /\ ops < MaxOps
  /\ MessageAck(cx[i].msg)
  /\ ClientCalls(i, MessageAckCalls)
  /\ \E r \in NackResults :
       Called("Nack", i, <<>>, r, IF r = Nil THEN Nil ELSE NackError(r[1]))
  /\ UNCHANGED <<cx, bindCalls, published>>
  /\ AckFrame

\* if err := c.msg.Ack(); err != nil { return fmt.Errorf(... %w, err) }
Ack(i) ==
  /\ cx[i].live /\ ops < MaxOps
  /\ MessageAck(cx[i].msg)
  /\ ClientCalls(i, MessageAckCalls)
  /\ \E r \in AckResults :
       Called("Ack", i, <<>>, r, IF r = Nil THEN Nil ELSE AckError(r[1]))
  /\ UNCHANGED <<cx, bindCalls, published>>
  /\ AckFrame

\* if err := c.msg.Nack(); err != nil { return fmt.Errorf(... %w, err) }
Nack(i) ==
  /\ cx[i].live /\ ops < MaxOps
  /\ MessageNack(cx[i].msg)
  /\ ClientCalls(i, MessageNackCalls)
  /\ \E r \in NackResults :
       Called("Nack", i, <<>>, r, IF r = Nil THEN Nil ELSE NackError(r[1]))
  /\ UNCHANGED <<cx, bindCalls, published>>
  /\ AckFrame

\* a Republish that acknowledges the message it has published
RepublishAcking(i, t) ==
  /\ cx[i].live /\ ops < MaxOps
  /\ IF ~cx[i].broker
       THEN /\ published' = published
            /\ msgs' = msgs
            /\ Called("Republish", i, <<t>>, NotReturned, ErrNoBroker)
       ELSE \E r \in PublishOutcomes :
              /\ BrokerPublish(t, cx[i].msg, r)
              /\ IF r = Nil THEN MessageAck(cx[i].msg) ELSE msgs' = msgs
              /\ Called("Republish", i, <<t>>, r,
                        IF r = Nil THEN Nil ELSE RepublishError(t, r[1]))
  /\ UNCHANGED <<cx, bindCalls>>
  /\ ContextFrame

\* a Republish without the check of c.broker
RepublishUnguarded(i, t) ==
  /\ cx[i].live /\ ops < MaxOps
  /\ IF ~cx[i].broker
       THEN /\ published' = published
            /\ Called("Republish", i, <<t>>, NotReturned, Panic)
       ELSE \E r \in PublishOutcomes :
              /\ BrokerPublish(t, cx[i].msg, r)
              /\ Called("Republish", i, <<t>>, r,
                        IF r = Nil THEN Nil ELSE RepublishError(t, r[1]))
  /\ UNCHANGED <<cx, msgs, bindCalls>>
  /\ ContextFrame

\* if c.broker == nil { return ErrNoBroker }
\* if err := c.broker.Publish(c.ctx, topic, c.msg); err != nil { wrap }
Republish(i, t) ==
  /\ cx[i].live /\ ops < MaxOps
  /\ IF ~cx[i].broker
       THEN /\ published' = published
            /\ Called("Republish", i, <<t>>, NotReturned, ErrNoBroker)
       ELSE \E r \in PublishOutcomes :
              /\ BrokerPublish(t, cx[i].msg, r)
              /\ Called("Republish", i, <<t>>, r,
                        IF r = Nil THEN Nil ELSE RepublishError(t, r[1]))
  /\ UNCHANGED <<cx, msgs, bindCalls>>
  /\ ContextFrame

\* the value of m1 is a JSON document, the value of m2 is not
ValidJSON(m) == m = "m1"

\* JSONBinder.Bind: json.Unmarshal(data, v), its error wrapped
BinderBind(m) == IF ValidJSON(m) THEN Nil ELSE JSONError

\* a Bind without the check of c.binder
BindUnguarded(i) ==
  /\ cx[i].live /\ ops < MaxOps
  /\ IF cx[i].binder = "none"
       THEN /\ bindCalls' = bindCalls
            /\ Called("Bind", i, <<>>, NotReturned, Panic)
       ELSE /\ bindCalls' = bindCalls + 1
            /\ Called("Bind", i, <<>>, BinderBind(cx[i].msg),
                      IF BinderBind(cx[i].msg) = Nil THEN Nil
                      ELSE BindError(BinderBind(cx[i].msg)))
  /\ UNCHANGED <<cx, msgs, published>>
  /\ ContextFrame

\* if c.binder == nil { return no binder configured }
\* if err := c.binder.Bind(c.msg.Value(), v); err != nil { wrap }
Bind(i) ==
  /\ cx[i].live /\ ops < MaxOps
  /\ IF cx[i].binder = "none"
       THEN /\ bindCalls' = bindCalls
            /\ Called("Bind", i, <<>>, NotReturned, ErrNoBinder)
       ELSE /\ bindCalls' = bindCalls + 1
            /\ Called("Bind", i, <<>>, BinderBind(cx[i].msg),
                      IF BinderBind(cx[i].msg) = Nil THEN Nil
                      ELSE BindError(BinderBind(cx[i].msg)))
  /\ UNCHANGED <<cx, msgs, published>>
  /\ ContextFrame

\* c.store[key] = val
StoreSet(st, k, v) ==
  [q \in DOMAIN st \cup {k} |-> IF q = k THEN v ELSE st[q]]

\* val, ok := c.store[key]
StoreGet(st, k) == IF k \in DOMAIN st THEN <<st[k], TRUE>> ELSE <<"nil", FALSE>>

Set(i, k, v) ==
  /\ cx[i].live /\ ops < MaxOps
  /\ cx' = [cx EXCEPT ![i].store = StoreSet(@, k, v)]
  /\ Called("Set", i, <<k, v>>, NotReturned, Nil)
  /\ UNCHANGED <<msgs, bindCalls, published>>
  /\ ContextFrame

Get(i, k) ==
  /\ cx[i].live /\ ops < MaxOps
  /\ Called("Get", i, <<k>>, NotReturned, StoreGet(cx[i].store, k))
  /\ UNCHANGED <<cx, msgs, bindCalls, published>>
  /\ ContextFrame

(* ------------------------------------------------------------------ *)
(* DefaultMatcher.Match                                                *)
(* ------------------------------------------------------------------ *)

\* strings.Split(s, "."): a pattern or a topic is the sequence of its
\* levels, which has one level at least
LevelSeqs(levels) ==
  UNION {[1..n -> levels] : n \in 1..MaxLevels}

\* matchFrom(pat, pi, top, ti), pi and ti counting from 0 as in the code;
\* tryPositions is its loop `for ti <= len(top)` after a # that is not the
\* last level
RECURSIVE matchFrom(_, _, _, _)
RECURSIVE tryPositions(_, _, _, _)
tryPositions(pat, pi, top, ti) ==
  IF ti <= Len(top)
    THEN IF matchFrom(pat, pi, top, ti) THEN TRUE
         ELSE tryPositions(pat, pi, top, ti + 1)
    ELSE FALSE

\* a matcher for which a * level of the topic stands for any level too
RECURSIVE matchFromTopicWild(_, _, _, _)
matchFromTopicWild(pat, pi, top, ti) ==
  IF pi < Len(pat) /\ ti < Len(top)
    THEN IF pat[pi + 1] = "#"
           THEN IF pi = Len(pat) - 1 THEN TRUE
                ELSE tryPositions(pat, pi + 1, top, ti)
         ELSE IF pat[pi + 1] = "*" \/ top[ti + 1] = "*"
           THEN matchFromTopicWild(pat, pi + 1, top, ti + 1)
         ELSE IF pat[pi + 1] # top[ti + 1] THEN FALSE
              ELSE matchFromTopicWild(pat, pi + 1, top, ti + 1)
    ELSE pi = Len(pat) /\ ti = Len(top)

matchFrom(pat, pi, top, ti) ==
  IF pi < Len(pat) /\ ti < Len(top)
    THEN IF pat[pi + 1] = "#"
           THEN IF pi = Len(pat) - 1 THEN TRUE
                ELSE tryPositions(pat, pi + 1, top, ti)
         ELSE IF pat[pi + 1] = "*"
           THEN matchFrom(pat, pi + 1, top, ti + 1)
         ELSE IF pat[pi + 1] # top[ti + 1] THEN FALSE
              ELSE matchFrom(pat, pi + 1, top, ti + 1)
    ELSE pi = Len(pat) /\ ti = Len(top)

\* DefaultMatcher.Match(pattern, topic): the loop of matchFrom from the
\* first level of both
Match(pattern, topic) == matchFrom(pattern, 0, topic, 0)

\* a call m.Match(mPattern, mTopic)
CallMatch ==
  /\ mResult = NotReturned
  /\ mResult' = <<Match(mPattern, mTopic)>>
  /\ UNCHANGED <<routerVars, ctxDone, callVars, taskVars, brokerVars, obsVars,
                 pubCall, ctxVars, mPattern, mTopic, extVars>>

(* ------------------------------------------------------------------ *)
(* A call of a composed handler, with panics; middleware.Recovery      *)
(* ------------------------------------------------------------------ *)

\* a Recovery without the deferred recover()
RecoveryRethrows(r) == r

\* Recovery()(next): defer func() { if r := recover(); r != nil {
\* err = fmt.Errorf("eventmux: panic recovered: %v", r) } }();
\* return next(ctx, msg)
Recovery(r) == IF r = Panic THEN PanicRecovered ELSE r

\* calling the function at position i of the chain h, where the function
\* at position pp[1] panics in phase pp[2] and the handler function
\* returns ret otherwise: the order of execution and the outcome, which is
\* Panic when a panic leaves the call.  mw(name) runs name:before, next and
\* name:after and returns what next returned.
RECURSIVE Run(_, _, _, _)
Run(h, i, pp, ret) ==
  IF i = Len(h)
    THEN [order |-> << <<h[i], "handler">> >>,
          result |-> IF pp[1] = i THEN Panic ELSE ret]
  ELSE IF pp = <<i, "before">>
    THEN [order |-> << <<h[i], "before">> >>, result |-> Panic]
  ELSE LET inner == Run(h, i + 1, pp, ret)
           entered == << <<h[i], "before">> >> \o inner.order
           left == entered \o << <<h[i], "after">> >>
       IN IF h[i] = "Recovery"
            THEN [order |-> left, result |-> Recovery(inner.result)]
          ELSE IF inner.result = Panic
            THEN [order |-> entered, result |-> Panic]
          ELSE IF pp = <<i, "after">>
            THEN [order |-> left, result |-> Panic]
          ELSE [order |-> left, result |-> inner.result]

\* the handler applyMiddleware composes of chMws around handler h1
Composed == applyMiddleware(BaseHandler("h1"), chMws)

\* wrapped(ctx, msg)
CallWrapped ==
  /\ chOut = NoOutcome
  /\ chOut' = Run(Composed, 1, chPanic, chReturn)
  /\ UNCHANGED <<routerVars, ctxDone, callVars, taskVars, brokerVars, obsVars,
                 pubCall, ctxVars, matchVars, chMws, chPanic, chReturn,
                 regVars, adVars, lockVars, vendor, kafkaVars>>

(* ------------------------------------------------------------------ *)
(* The broker factory registry: Register and Create                    *)
(* ------------------------------------------------------------------ *)

\* what no call on the registry changes
RegistryFrame ==
  UNCHANGED <<routerVars, ctxDone, callVars, taskVars, brokerVars, obsVars,
              pubCall, ctxVars, matchVars, chainVars, adVars, lockVars, vendor,
              kafkaVars>>

\* a Register that leaves a registered name with the factory it has
RegisterKeepFirst(n, f) ==
  /\ Len(regLog) < MaxRegister
  /\ factories' = [q \in DOMAIN factories \cup {n} |->
                     IF q \in DOMAIN factories THEN factories[q] ELSE f]
  /\ regLog' = Append(regLog, <<n, f>>)
  /\ UNCHANGED <<creating, invoked>>
  /\ RegistryFrame

\* mu.Lock(); factories[name] = factory; mu.Unlock()
Register(n, f) ==
  /\ Len(regLog) < MaxRegister
  /\ factories' = [q \in DOMAIN factories \cup {n} |->
                     IF q = n THEN f ELSE factories[q]]
  /\ regLog' = Append(regLog, <<n, f>>)
  /\ UNCHANGED <<creating, invoked>>
  /\ RegistryFrame

\* mu.RLock(); f, ok := factories[name]; mu.RUnlock()
CreateLookup(k, n) ==
  /\ creating[k].pc = "idle"
  /\ creating' = [creating EXCEPT ![k] =
                    [pc |-> "looked", name |-> n,
                     f |-> IF n \in DOMAIN factories THEN factories[n]
                           ELSE "none",
                     ok |-> n \in DOMAIN factories,
                     result |-> NotReturned]]
  /\ UNCHANGED <<factories, regLog, invoked>>
  /\ RegistryFrame

\* if !ok { return nil, unknown broker }; return f(cfg)
CreateReturn(k) ==
  /\ creating[k].pc = "looked"
  /\ IF ~creating[k].ok
       THEN /\ creating' = [creating EXCEPT ![k].pc = "returned",
                             ![k].result = UnknownBroker(creating[k].name)]
            /\ invoked' = invoked
       ELSE /\ \E r \in FactoryResults(creating[k].f) :
                 creating' = [creating EXCEPT ![k].pc = "returned",
                                              ![k].result = r]
            /\ invoked' = Append(invoked, <<k, creating[k].f>>)
  /\ UNCHANGED <<factories, regLog>>
  /\ RegistryFrame

(* ------------------------------------------------------------------ *)
(* The specifications                                                  *)
(* ------------------------------------------------------------------ *)

\* Spec: the whole life of a router and of the Start calls made on it:
\* registration, every goroutine of Start, deliveries, every outcome of the
\* broker.  What is registered is drawn from one handler, one middleware
\* and one matcher.
Next ==
  \/ SetMatcher("custom")
  \/ Use("A")
  \/ \E p \in Patterns : Handle(p, "h1")
  \/ Cancel
  \/ \E c \in Callers : StartNoBroker(c)
  \/ \E c \in Callers : StartAlreadyStarted(c)
  \/ \E c \in Callers : StartSnapshot(c)
  \/ \E c \in Callers : StartSpawn(c)
  \/ \E c \in Callers, p \in Patterns : SubscribeFails(c, p)
  \/ \E c \in Callers, p \in Patterns : SubscribeOk(c, p)
  \/ \E c \in Callers, p \in Patterns : Deliver(c, p, "m1")
  \/ \E c \in Callers, p \in Patterns : HandlerReturns(c, p, Nil)
  \/ \E c \in Callers, p \in Patterns : SubscribeReturns(c, p)
  \/ \E c \in Callers, p \in Patterns : ConsumeEnds(c, p)
  \/ \E c \in Callers, p \in Patterns : ConsumeFails(c, p)
  \/ \E c \in Callers, p \in Patterns : SendErr(c, p)
  \/ \E c \in Callers : WaitClose(c)
  \/ \E c \in Callers : StartCtxDone(c)
  \/ \E c \in Callers : StartRecvErr(c)
  \/ \E c \in Callers : StartRecvClosed(c)
  \/ \E c \in Callers : StartWaitCtx(c)

Spec == Init /\ [][Next]_vars

\* SpecLife: the life of a router on which Router.Publish is called at any
\* time: registration, the Start calls and their goroutines, with
\* subscriptions that stay up until the context is cancelled and receive
\* no delivery.
NextLife ==
  \/ SetMatcher("custom")
  \/ Use("A")
  \/ \E p \in Patterns : Handle(p, "h1")
  \/ \E t \in PubTopics, m \in Msgs : Publish(t, m)
  \/ Cancel
  \/ \E c \in Callers : StartNoBroker(c)
  \/ \E c \in Callers : StartAlreadyStarted(c)
  \/ \E c \in Callers : StartSnapshot(c)
  \/ \E c \in Callers : StartSpawn(c)
  \/ \E c \in Callers, p \in Patterns : SubscribeOk(c, p)
  \/ \E c \in Callers, p \in Patterns : SubscribeReturns(c, p)
  \/ \E c \in Callers : WaitClose(c)
  \/ \E c \in Callers : StartCtxDone(c)
  \/ \E c \in Callers : StartRecvClosed(c)
  \/ \E c \in Callers : StartWaitCtx(c)

SpecLife == Init /\ [][NextLife]_vars

\* SpecLive: the Start calls on a router with a broker, their goroutines
\* and every outcome of the broker, under the scheduling of the Go runtime:
\* the goroutine that called Start runs whenever it can, so it goes on from
\* the snapshot to the loop, its select proceeds once one of its cases is
\* ready, and its receive from ctx.Done() proceeds once the context is
\* cancelled.  Nothing is assumed of the subscription tasks: a Subscribe
\* call may never return.
InitLive == Init /\ hasBroker

NextLive ==
  \/ \E p \in Patterns : Handle(p, "h1")
  \/ Cancel
  \/ \E c \in Callers : StartAlreadyStarted(c)
  \/ \E c \in Callers : StartSnapshot(c)
  \/ \E c \in Callers : StartSpawn(c)
  \/ \E c \in Callers, p \in Patterns : SubscribeFails(c, p)
  \/ \E c \in Callers, p \in Patterns : SubscribeOk(c, p)
  \/ \E c \in Callers, p \in Patterns : SubscribeReturns(c, p)
  \/ \E c \in Callers, p \in Patterns : ConsumeEnds(c, p)
  \/ \E c \in Callers, p \in Patterns : ConsumeFails(c, p)
  \/ \E c \in Callers, p \in Patterns : SendErr(c, p)
  \/ \E c \in Callers : WaitClose(c)
  \/ \E c \in Callers : StartCtxDone(c)
  \/ \E c \in Callers : StartRecvErr(c)
  \/ \E c \in Callers : StartRecvClosed(c)
  \/ \E c \in Callers : StartWaitCtx(c)

\* the select of Start takes one of its ready cases
Select(c) == StartCtxDone(c) \/ StartRecvErr(c) \/ StartRecvClosed(c)

StartFairness ==
  \A c \in Callers :
    /\ WF_vars(StartSpawn(c))
    /\ WF_vars(Select(c))
    /\ WF_vars(StartWaitCtx(c))

SpecLive == InitLive /\ [][NextLive]_vars /\ StartFairness

\* SpecContext: the deliveries of a started router with one route and what
\* their handlers do with the Context: every message, every handler result,
\* every method of Context on the Context of a delivery in progress or on
\* one built directly with NewContext, with or without broker and binder.
InitContext == Init /\ hasBroker

NextContext ==
  \/ Handle("orders.created", "h1")
  \/ \E c \in Callers : StartSnapshot(c)
  \/ \E c \in Callers : StartSpawn(c)
  \/ \E c \in Callers, p \in Patterns : SubscribeOk(c, p)
  \/ \E c \in Callers, p \in Patterns, m \in Msgs : Deliver(c, p, m)
  \/ \E c \in Callers, p \in Patterns, r \in HandlerResults :
       HandlerReturns(c, p, r)
  \/ \E m \in Msgs, t \in PubTopics, b \in BOOLEAN, binder \in Binders :
       NewContextCall(m, t, b, binder)
  \/ \E i \in CtxIds : Ack(i)
  \/ \E i \in CtxIds : Nack(i)
  \/ \E i \in CtxIds, t \in RepubTopics : Republish(i, t)
  \/ \E i \in CtxIds : Bind(i)
  \/ \E i \in CtxIds, k \in Keys, v \in Vals : Set(i, k, v)
  \/ \E i \in CtxIds, k \in Keys : Get(i, k)

SpecContext == InitContext /\ [][NextContext]_vars

\* SpecMatch: one call of DefaultMatcher.Match for every pattern and every
\* topic of up to MaxLevels levels.
InitMatch ==
  /\ RouterInit
  /\ ContextInit
  /\ mPattern \in LevelSeqs(PatternLevels)
  /\ mTopic \in LevelSeqs(TopicLevels)
  /\ mResult = NotReturned
  /\ ExtInit

NextMatch == CallMatch

SpecMatch == InitMatch /\ [][NextMatch]_vars

\* SpecChain: one call of the handler applyMiddleware composes of every
\* middleware list of up to MaxChain middlewares, Recovery among them,
\* where no function panics or one does, a middleware before or after it
\* calls next; Recovery itself does not panic.
MwSeqs == UNION {[1..n -> ChainMws] : n \in 0..MaxChain}

PanicPoints(mws) ==
  {NoPanic}
    \cup {<<i, ph>> : i \in {j \in 1..Len(mws) : mws[j] # "Recovery"},
                      ph \in Phases}
    \cup {<<Len(mws) + 1, "before">>}

InitChain ==
  /\ RouterInit
  /\ ContextInit
  /\ MatchIdle
  /\ chMws \in MwSeqs
  /\ chPanic \in PanicPoints(chMws)
  /\ chReturn \in HandlerResults
  /\ chOut = NoOutcome
  /\ RegistryInit
  /\ BrokerInit
  /\ LockInit
  /\ KafkaInit

NextChain == CallWrapped

SpecChain == InitChain /\ [][NextChain]_vars

\* SpecAdapter: a router on one of the broker adapters, with one Start
\* call: its subscriptions, their deliveries and handler results, what the
\* consume loop of the adapter does with them, the ends a subscription of
\* the adapter can take, and Publish and Close calls at any time.
InitAdapter ==
  /\ RouterInit
  /\ hasBroker
  /\ ContextInit
  /\ MatchIdle
  /\ ChainIdle
  /\ RegistryInit
  /\ kind \in Adapters
  /\ requeue \in (IF kind = "rabbitmq" THEN BOOLEAN ELSE {FALSE})
  /\ resourceCloses = 0
  /\ adNack = NoNack
  /\ directClose = NoClose
  /\ vendor = NoVendorCalls
  /\ LockInit
  /\ KafkaInit

NextAdapter ==
  \/ \E p \in Patterns : Handle(p, "h1")
  \/ \E t \in PubTopics : Publish(t, "m1")
  \/ Cancel
  \/ CloseCall
  \/ StartSnapshot("s1")
  \/ StartSpawn("s1")
  \/ \E p \in Patterns : SubscribeClosed("s1", p)
  \/ \E p \in Patterns : kind # "kafka" /\ SubscribeFails("s1", p)
  \/ \E p \in Patterns : SubscribeOk("s1", p)
  \/ \E p \in Patterns : Deliver("s1", p, "m1")
  \/ \E p \in Patterns, r \in HandlerResults : HandlerReturns("s1", p, r)
  \/ \E p \in Patterns : SubscribeReturns("s1", p)
  \/ \E p \in Patterns : kind = "rabbitmq" /\ ConsumeEnds("s1", p)
  \/ \E p \in Patterns : kind = "kafka" /\ ConsumeFails("s1", p)
  \/ \E p \in Patterns : SendErr("s1", p)
  \/ WaitClose("s1")
  \/ StartCtxDone("s1")
  \/ StartRecvErr("s1")
  \/ StartRecvClosed("s1")
  \/ StartWaitCtx("s1")

SpecAdapter == InitAdapter /\ [][NextAdapter]_vars

\* SpecAck: the deliveries of a router on one of the broker adapters, with
\* handlers that call Ack and Nack of the Context of the delivery in any
\* number and order and then return nil or an error, and what the message
\* type and the consume loop of the adapter call at the client.
NextAck ==
  \/ \E p \in Patterns : Handle(p, "h1")
  \/ StartSnapshot("s1")
  \/ StartSpawn("s1")
  \/ \E p \in Patterns : SubscribeOk("s1", p)
  \/ \E p \in Patterns, m \in Msgs : Deliver("s1", p, m)
  \/ \E p \in Patterns : Ack(p)
  \/ \E p \in Patterns : Nack(p)
  \/ \E p \in Patterns, r \in HandlerResults : HandlerReturns("s1", p, r)

SpecAck == InitAdapter /\ [][NextAck]_vars

\* SpecKafka: Subscribe calls and Close calls on one kafka Broker, two of
\* each, statement by statement in every interleaving.
NextKafka ==
  \/ \E t \in KSubscribers : KSubNewReader(t)
  \/ \E t \in KSubscribers : KSubLock(t)
  \/ \E t \in KSubscribers : KSubClosedUnlock(t)
  \/ \E t \in KSubscribers : KSubCloseReader(t)
  \/ \E t \in KSubscribers : KSubAppend(t)
  \/ \E t \in KSubscribers : KFetch(t)
  \/ \E t \in KSubscribers : KFetchFails(t)
  \/ \E t \in KSubscribers : KLoopReturns(t)
  \/ \E x \in KClosers : KCloseLock(x)
  \/ \E x \in KClosers : KCloseAlready(x)
  \/ \E x \in KClosers : KCloseMark(x)
  \/ \E x \in KClosers : KCloseReaders(x)

SpecKafka == Init /\ [][NextKafka]_vars

\* SpecLock: Use and Handle calls of two goroutines and the Start calls,
\* each a sequence of steps of which the first takes r.mu, in every
\* interleaving, followed by the dispatch of the Start call that passed.
NextLock ==
  \/ \E a \in Registrars : UseLock(a)
  \/ \E a \in Registrars, m \in MwNames : UseAppend(a, m)
  \/ \E a \in Registrars : HandleLock(a)
  \/ \E a \in Registrars, p \in Patterns, h \in HandlerIds :
       HandleStore(a, p, h)
  \/ \E c \in Callers : StartLock(c)
  \/ \E c \in Callers : StartRejected(c)
  \/ \E c \in Callers : StartMark(c)
  \/ \E c \in Callers : StartCopyRoutes(c)
  \/ \E c \in Callers : StartCopyMws(c)
  \/ \E c \in Callers : StartUnlock(c)
  \/ \E c \in Callers : StartSpawn(c)
  \/ \E c \in Callers, p \in Patterns : SubscribeOk(c, p)
  \/ \E c \in Callers, p \in Patterns : Deliver(c, p, "m1")
  \/ \E c \in Callers, p \in Patterns : HandlerReturns(c, p, Nil)

SpecLock == Init /\ [][NextLock]_vars

\* SpecRegistry: Register calls and Create calls of two goroutines in
\* every interleaving; each call holds mu for its access to the map, and a
\* Create call invokes the factory after it has released mu.
NextRegistry ==
  \/ \E n \in BrokerNames, f \in Factories : Register(n, f)
  \/ \E k \in Creators, n \in BrokerNames : CreateLookup(k, n)
  \/ \E k \in Creators : CreateReturn(k)

InitRegistry == Init /\ hasBroker

SpecRegistry == InitRegistry /\ [][NextRegistry]_vars

\* SpecDispatch: registration and the running dispatch of a router with a
\* broker whose subscriptions stay up: every handler, middleware and matcher
\* may be registered at any time, before and after Start.
InitDispatch == Init /\ hasBroker

NextDispatch ==
  \/ \E m \in Matchers : SetMatcher(m)
  \/ \E m \in MwNames : Use(m)
  \/ \E p \in Patterns, h \in HandlerIds : Handle(p, h)
  \/ \E c \in Callers : StartAlreadyStarted(c)
  \/ \E c \in Callers : StartSnapshot(c)
  \/ \E c \in Callers : StartSpawn(c)
  \/ \E c \in Callers, p \in Patterns : SubscribeOk(c, p)
  \/ \E c \in Callers, p \in Patterns : Deliver(c, p, "m1")
  \/ \E c \in Callers, p \in Patterns : HandlerReturns(c, p, Nil)

SpecDispatch == InitDispatch /\ [][NextDispatch]_vars


(* ------------------------------------------------------------------ *)
(* Properties                                                          *)
(* ------------------------------------------------------------------ *)

\* a Start call whose loop over the routes has run
Spawned(c) == Passed(c) /\ pc[c] # "spawn"

IsHandlerEvent(ev) == ev[2] = "handler"
IsBeforeEvent(ev) == ev[2] = "before"

\* the order of execution of middlewares mws, registered in that order,
\* around handler function h
ExpectedOrder(mws, h) ==
  [i \in 1..(2 * Len(mws) + 1) |->
     IF i <= Len(mws) THEN <<mws[i], "before">>
     ELSE IF i = Len(mws) + 1 THEN <<h, "handler">>
     ELSE <<mws[2 * Len(mws) + 2 - i], "after">>]

C2_Guarded ==
  hasBroker =>
    /\ Cardinality({c \in Callers : Passed(c)}) <= 1
    /\ (\A c \in Callers : pc[c] # "idle") =>
         Cardinality({c \in Callers : Passed(c)}) = 1
    /\ \A c \in Callers :
         (pc[c] = "returned" /\ ~Passed(c)) =>
           /\ result[c] = ErrAlreadyStarted
           /\ closeCalls[c] = 0
           /\ \A p \in Patterns :
                subscribeCalls[c][p] = <<>> /\ task[c][p] = "none"

C2_RejectStep ==
  \A c \in Callers :
    (pc[c] = "idle" /\ result'[c] = ErrAlreadyStarted) =>
      UNCHANGED <<task, wrapped, subscribeCalls, errCh, errClosed, closed,
                  closeCalls, started>>

C2_ConcurrentStart == [][C2_Guarded' /\ C2_RejectStep]_vars

C2_Witness ==
  \E c, d \in Callers :
    /\ pc[c] = "select"
    /\ \A p \in Patterns : task[c][p] = "consuming"
    /\ result[d] = ErrAlreadyStarted

\* C3 as stated: a Start call that is blocked with its context cancelled
\* returns only by calling Close, returns Close's result and leaves the
\* broker closed.
C3_Original ==
  [][\A c \in Callers :
       (pc[c] \in {"select", "waitctx"} /\ ctxDone /\ pc'[c] = "returned") =>
         /\ closeCalls'[c] = closeCalls[c] + 1
         /\ result'[c] = closeResult'[c]
         /\ closed']_vars

\* C3 as amended: a Start call that passed its guards and returns anything
\* but a subscription error returns after the cancellation, has called
\* Close exactly once, returns exactly Close's result and leaves the broker
\* closed; a subscription error it received is returned without Close.
C3_CloseOnCancel ==
  \A c \in Callers :
    (pc[c] = "returned" /\ Passed(c)) =>
      \/ /\ IsSubscribeError(result[c])
         /\ closeCalls[c] = 0
      \/ /\ ctxDone
         /\ closeCalls[c] = 1
         /\ result[c] = closeResult[c]
         /\ closed

C3_Witness ==
  \E c \in Callers :
    /\ pc[c] = "returned"
    /\ result[c] = <<"ErrClose">>
    /\ closeCalls[c] = 1
    /\ DOMAIN snapRoutes[c] = Patterns
    /\ errClosed[c]

\* C4 as stated: a Start call that leaves its select while the channel
\* holds the error of a Subscribe call returns that error and does not call
\* Close.
C4_Original ==
  [][\A c \in Callers :
       (pc[c] = "select" /\ errCh[c] # <<>> /\ pc'[c] # "select") =>
         /\ result'[c] = Head(errCh[c])
         /\ closeCalls'[c] = closeCalls[c]]_vars

\* a Start call that returned a subscription error returned the error of
\* the Subscribe call of one of its routes, wrapped with that route's
\* pattern, did not call Close and left the broker open; an error in the
\* channel can be received whatever the other subscription tasks are doing
C4_Returned ==
  \A c \in Callers :
    /\ (pc[c] = "returned" /\ IsSubscribeError(result[c])) =>
         /\ closeCalls[c] = 0
         /\ ~closed
         /\ \E p \in DOMAIN snapRoutes[c] :
              /\ result[c] = SubscribeError(p, taskErr[c][p])
              /\ Len(subscribeCalls[c][p]) = 1
    /\ (pc[c] = "select" /\ errCh[c] # <<>>) => ENABLED StartRecvErr(c)

\* a Start call that leaves its select while the channel holds an error
\* returns the first error sent, without Close, unless the context is
\* cancelled and it returns the result of Close
C4_SelectStep ==
  \A c \in Callers :
    (pc[c] = "select" /\ errCh[c] # <<>> /\ pc'[c] # "select") =>
      /\ pc'[c] = "returned"
      /\ \/ /\ result'[c] = Head(errCh[c])
            /\ closeCalls'[c] = closeCalls[c]
            /\ closed' = closed
         \/ /\ ctxDone
            /\ closeCalls'[c] = closeCalls[c] + 1
            /\ result'[c] = closeResult'[c]
      /\ ~ctxDone => result'[c] = Head(errCh[c])

\* C4 as amended: when the Subscribe call of a route returns an error and
\* the context is not cancelled, Start returns the first such error sent,
\* wrapped as a subscribe error naming the pattern, without calling Close
\* and without waiting for the other subscription tasks; when the context
\* is cancelled as well, Start returns either that error or, having called
\* Close, the result of Close.
C4_SubscribeError == [][C4_Returned' /\ C4_SelectStep]_vars

C4_Witness ==
  \E c \in Callers, p, q \in Patterns :
    /\ pc[c] = "returned"
    /\ result[c] = SubscribeError(p, SubscribeErr)
    /\ task[c][q] \in {"spawned", "consuming", "handling"}
    /\ ~ctxDone

\* C5: on a router built with a nil broker every Start call returns
\* NoBroker: no task exists, no Subscribe or Close call was made, and the
\* router is not marked started.
C5_NilBroker ==
  ~hasBroker =>
    /\ ~started
    /\ ~closed
    /\ \A c \in Callers :
         /\ pc[c] \in {"idle", "returned"}
         /\ pc[c] = "returned" => result[c] = ErrNoBroker
         /\ closeCalls[c] = 0
         /\ \A p \in Patterns :
              task[c][p] = "none" /\ subscribeCalls[c][p] = <<>>

C5_Witness ==
  /\ ~hasBroker
  /\ DOMAIN routes = Patterns
  /\ \A c \in Callers : result[c] = ErrNoBroker


\* the names of the middlewares an order of execution enters, in order
RECURSIVE BeforeNames(_)
BeforeNames(order) ==
  IF order = <<>> THEN <<>>
  ELSE IF IsBeforeEvent(Head(order))
         THEN <<Head(order)[1]>> \o BeforeNames(Tail(order))
         ELSE BeforeNames(Tail(order))

\* the handler functions an order of execution runs
HandlersRun(order) ==
  {order[i][1] : i \in {j \in 1..Len(order) : IsHandlerEvent(order[j])}}

\* C6: registrations made after the snapshot do not reach the running
\* dispatch: subscriptions exist only for snapshotted patterns, and every
\* delivery runs the snapshotted handler inside the snapshotted middlewares,
\* never a handler or a middleware registered later.
C6_LateRegistration ==
  /\ \A c \in Callers, p \in Patterns :
       (task[c][p] # "none" \/ subscribeCalls[c][p] # <<>>) =>
         p \in DOMAIN snapRoutes[c]
  /\ \A e \in execLog :
       /\ HandlersRun(e.order) = {snapRoutes[e.caller][e.pattern][1]}
       /\ BeforeNames(e.order) = snapMws[e.caller]

C6_Witness ==
  \E e \in execLog :
    /\ e.stale
    /\ Spawned(e.caller)
    /\ \E q \in DOMAIN routes :
         q \notin DOMAIN snapRoutes[e.caller] /\ task[e.caller][q] = "none"
    /\ matcher # snapMatcher[e.caller]

\* C7: the broker is closed only by a Close call of a Start call that passed
\* both guards, so only on a started router; no registration, Publish or
\* rejected Start call closes it.
C7_CloseOnlyFromStart ==
  /\ closed => started
  /\ closed => \E c \in Callers : closeCalls[c] > 0
  /\ \A c \in Callers : closeCalls[c] > 0 => (Passed(c) /\ started)

C7_Witness ==
  /\ closed
  /\ \E d \in Callers : result[d] = ErrAlreadyStarted
  /\ pubResult = Nil
  /\ middlewares # <<>>
  /\ matcher = "custom"

\* C8: started stays set once a Start call has passed the guards; every
\* Start call that returns after a call that passed has returned gets
\* AlreadyStarted and has no subscription.
C8_StartedOnce ==
  /\ (\E c \in Callers : Passed(c)) => started
  /\ \A i, j \in 1..Len(returns) :
       (i < j /\ Passed(returns[i])) =>
         /\ result[returns[j]] = ErrAlreadyStarted
         /\ \A p \in Patterns :
              /\ task[returns[j]][p] = "none"
              /\ subscribeCalls[returns[j]][p] = <<>>

C8_Witness ==
  /\ Len(returns) = 2
  /\ IsSubscribeError(result[returns[1]])
  /\ result[returns[2]] = ErrAlreadyStarted

\* C9: Start calls Subscribe at most once per pattern, exactly once for
\* every snapshotted pattern once its tasks have all subscribed, and never
\* for another pattern; the handler it passes is the middleware-wrapped
\* handler of the last Handle call made for the pattern before Start.
C9_Subscribed ==
  \A c \in Callers :
    /\ \A p \in Patterns :
         /\ Len(subscribeCalls[c][p]) <= 1
         /\ Len(subscribeCalls[c][p]) = 1 =>
              /\ p \in DOMAIN snapRoutes[c]
              /\ subscribeCalls[c][p][1] =
                   applyMiddleware(snapRoutes[c][p], snapMws[c])
    /\ (Spawned(c) /\ \A p \in Patterns : task[c][p] # "spawned") =>
         \A p \in Patterns :
           Len(subscribeCalls[c][p]) = IF p \in DOMAIN snapRoutes[c] THEN 1 ELSE 0

C9_SnapshotStep ==
  \A c \in Callers :
    (pc[c] = "idle" /\ pc'[c] = "spawn") =>
      /\ DOMAIN snapRoutes'[c] = DOMAIN lastHandle
      /\ \A p \in DOMAIN lastHandle :
           snapRoutes'[c][p] = BaseHandler(lastHandle[p])

C9_OneSubscribePerPattern == [][C9_Subscribed' /\ C9_SnapshotStep]_vars

C9_Witness ==
  /\ overwritten
  /\ \E c \in Callers :
       \A p \in Patterns : Len(subscribeCalls[c][p]) = 1

\* C10: every delivery to the subscription of pattern p runs exactly one
\* handler function, the one the snapshot holds for p.
C10_OwnHandler ==
  \A e \in execLog :
    SelectSeq(e.order, IsHandlerEvent) =
      << <<snapRoutes[e.caller][e.pattern][1], "handler">> >>

C10_Witness ==
  \E e \in execLog :
    \E q \in DOMAIN snapRoutes[e.caller] :
      /\ q # e.pattern
      /\ snapRoutes[e.caller][q] # snapRoutes[e.caller][e.pattern]
      /\ task[e.caller][q] \in {"consuming", "handling"}
      /\ snapMws[e.caller] # <<>>


\* C12 (returns): a Start call that passed its guards has returned only if
\* the context is cancelled or it returns the error of one of its
\* subscriptions.
C12_Returned ==
  \A c \in Callers :
    (pc[c] = "returned" /\ Passed(c)) =>
      \/ ctxDone
      \/ /\ IsSubscribeError(result[c])
         /\ \E p \in DOMAIN snapRoutes[c] : taskErr[c][p] # "none"

\* C12 (blocks): with the context live and no error in the channel no
\* returning step of Start is enabled, with no route registered and with
\* every subscription returned nil as well.
C12_Blocked ==
  \A c \in Callers :
    (Passed(c) /\ pc[c] \in {"select", "waitctx"} /\ ~ctxDone
       /\ errCh[c] = <<>>) =>
      /\ ~ENABLED StartCtxDone(c)
      /\ ~ENABLED StartRecvErr(c)
      /\ ~ENABLED StartWaitCtx(c)

\* C12: a Start call that passed its guards returns only after the context
\* has been cancelled or a subscription has returned an error; it keeps
\* blocking with no route and with every subscription returned nil.
C12_BlocksUntil == C12_Returned /\ C12_Blocked

C12_Witness ==
  \E c \in Callers :
    /\ pc[c] = "waitctx"
    /\ ~ctxDone
    /\ DOMAIN snapRoutes[c] = Patterns
    /\ \A p \in Patterns : task[c][p] = "done" /\ taskErr[c][p] = "none"


\* a step of Router.Publish on a router that has a broker: Broker.Publish
\* got the call's topic and message once and its result is returned; no
\* field of the router, no Start call, no subscription and not the broker's
\* closed flag changes
C14_PublishStep ==
  (hasBroker /\ (pubCall' # pubCall \/ pubResult' # pubResult
                   \/ published' # published)) =>
    /\ pubCall'.stage = Stage
    /\ \/ /\ pubResult' = Nil
          /\ published' =
               Append(published, <<pubCall'.topic, pubCall'.msg>>)
       \/ /\ pubResult' = <<"ErrPublish">>
          /\ published' = published
    /\ UNCHANGED <<routerVars, ctxDone, callVars, taskVars, closed,
                   subscribeCalls, closeCalls>>

\* Router.Publish can be called in every state: it is not gated by started
C14_NotGated ==
  Len(published) < MaxPublish =>
    \A t \in PubTopics, m \in Msgs : ENABLED Publish(t, m)

\* C14: Router.Publish delegates to Broker.Publish exactly once with the
\* same topic and message and returns its result in every stage of the
\* router's life, and changes no router state.
C14_PublishDelegates == [][C14_NotGated' /\ C14_PublishStep]_vars

C14_Witness ==
  /\ pubCall = [stage |-> "returned", topic |-> "out.topic", msg |-> "m2"]
  /\ pubResult = Nil
  /\ published = << <<"out.topic", "m2">> >>
  /\ closed
  /\ middlewares # <<>>
  /\ routes # EmptyMap


\* C13: once the context is cancelled, a Start call that passed its guards
\* eventually returns, whether or not its subscription tasks ever return
\* from Subscribe.
C13_ReturnsAfterCancel ==
  \A c \in Callers : (ctxDone /\ Passed(c)) ~> (pc[c] = "returned")

C13_Witness ==
  \E c \in Callers :
    /\ pc[c] = "returned"
    /\ ctxDone
    /\ closeCalls[c] = 1
    /\ \A p \in Patterns : task[c][p] \in {"spawned", "consuming"}


\* a step that is a call of method op of a Context
OpStep(op) == ops' = ops + 1 /\ lastOp'.op = op

\* C11 (return): the step in which the wrapped handler of a delivery
\* returns hands its result unchanged to the broker and leaves the
\* acknowledgement counts of every message as they were.
C11_ReturnStep ==
  \A c \in Callers, p \in Patterns :
    (task[c][p] = "handling" /\ task'[c][p] = "consuming") =>
      /\ msgs' = msgs
      /\ \A e \in execLog' :
           (e.caller = c /\ e.pattern = p) =>
             (e.handler \in HandlerResults /\ e.adapter = e.handler)

\* C11 (ack): Message.Ack and Message.Nack are called only in a call of
\* Context.Ack or Context.Nack, never by a step of the router.
C11_AckOnlyByHandler ==
  msgs' # msgs => (OpStep("Ack") \/ OpStep("Nack"))

\* C11: the dispatch handler returns to the broker exactly the result of the
\* middleware-wrapped handler, and the router never calls Message.Ack or
\* Message.Nack, whatever the handler returns.
C11_BridgeResult == [][C11_ReturnStep /\ C11_AckOnlyByHandler]_vars

C11_Witness ==
  \E e \in execLog :
    /\ e.handler = <<"ErrHandler">>
    /\ e.adapter = <<"ErrHandler">>
    /\ msgs[e.msg] = [acks |-> 0, nacks |-> 0]
    /\ task[e.caller][e.pattern] = "consuming"

\* C15 (Ack): a call of Context.Ack is one Message.Ack call on its message
\* and no Message.Nack call; it returns nil if Message.Ack did and else an
\* error that wraps the error of Message.Ack.
C15_AckStep ==
  OpStep("Ack") =>
    /\ msgs' = [msgs EXCEPT ![lastOp'.msg].acks = @ + 1]
    /\ lastOp'.msg = cx[lastOp'.id].msg
    /\ lastOp'.inner \in AckResults
    /\ IF lastOp'.inner = Nil THEN lastOp'.result = Nil
       ELSE lastOp'.result = <<"ack", lastOp'.inner[1]>>

\* C15 (Nack): the same of Context.Nack and Message.Nack.
C15_NackStep ==
  OpStep("Nack") =>
    /\ msgs' = [msgs EXCEPT ![lastOp'.msg].nacks = @ + 1]
    /\ lastOp'.msg = cx[lastOp'.id].msg
    /\ lastOp'.inner \in NackResults
    /\ IF lastOp'.inner = Nil THEN lastOp'.result = Nil
       ELSE lastOp'.result = <<"nack", lastOp'.inner[1]>>

\* C15: each Context.Ack call is exactly one Message.Ack call and no
\* Message.Nack call, each Context.Nack call exactly one Message.Nack call
\* and no Message.Ack call; the call returns nil when the message operation
\* succeeds and otherwise an error wrapping the message's error.
C15_AckNackDelegate == [][C15_AckStep /\ C15_NackStep]_vars

C15_Witness ==
  /\ lastOp.op = "Nack"
  /\ lastOp.result = NackError("ErrNack")
  /\ msgs[lastOp.msg] = [acks |-> 0, nacks |-> 1]

\* C16: a call of Context.Republish(topic) on a Context with a broker makes
\* one Broker.Publish call with the topic and the message of the Context,
\* which the broker records if it succeeds, and changes the acknowledgement
\* counts of no message.
C16_RepublishStep ==
  (OpStep("Republish") /\ cx[lastOp'.id].broker) =>
    /\ msgs' = msgs
    /\ lastOp'.inner \in PublishResults
    /\ lastOp'.inner = Nil =>
         /\ lastOp'.result = Nil
         /\ published' =
              Append(published, <<lastOp'.arg[1], cx[lastOp'.id].msg>>)

C16_Republish == [][C16_RepublishStep]_vars

C16_Witness ==
  /\ lastOp.op = "Republish"
  /\ lastOp.id \in Patterns
  /\ lastOp.result = Nil
  /\ published = << <<"orders.dlq", lastOp.msg>> >>
  /\ msgs[lastOp.msg] = [acks |-> 0, nacks |-> 0]
  /\ cx[lastOp.id].live

\* C17: Context.Republish on a Context without broker returns NoBroker and
\* calls nothing; when Broker.Publish fails it returns an error wrapping the
\* broker's error; in both cases the broker records no message.
C17_RepublishFailStep ==
  OpStep("Republish") =>
    /\ ~cx[lastOp'.id].broker =>
         /\ lastOp'.result = ErrNoBroker
         /\ lastOp'.inner = NotReturned
         /\ published' = published
    /\ (cx[lastOp'.id].broker /\ lastOp'.inner # Nil) =>
         /\ lastOp'.result = <<"republish", lastOp'.arg[1], lastOp'.inner[1]>>
         /\ published' = published

C17_RepublishErrors == [][C17_RepublishFailStep]_vars

C17_Witness ==
  /\ lastOp.op = "Republish"
  /\ lastOp.result = ErrNoBroker
  /\ ~cx[lastOp.id].broker
  /\ published = <<>>


\* C18 (fresh): a Context that appears, for a delivery or from a NewContext
\* call, has an empty store.
C18_FreshStep ==
  \A i \in CtxIds :
    (ops' = ops /\ cx'[i] # cx[i] /\ cx'[i].live) => cx'[i].store = EmptyMap

\* C18 (Set): Set(k, v) on a Context binds k to v in the store of that
\* Context, keeps its other keys and changes no other Context.
C18_SetStep ==
  OpStep("Set") =>
    LET i == lastOp'.id
        k == lastOp'.arg[1]
        v == lastOp'.arg[2]
    IN /\ \A j \in CtxIds \ {i} : cx'[j] = cx[j]
       /\ DOMAIN cx'[i].store = DOMAIN cx[i].store \cup {k}
       /\ cx'[i].store[k] = v
       /\ \A q \in DOMAIN cx[i].store \ {k} : cx'[i].store[q] = cx[i].store[q]

\* C18 (Get): Get(k) on a Context returns the value its own store binds k
\* to with found = true, and found = false if its store does not bind k;
\* it changes no store.
C18_GetStep ==
  OpStep("Get") =>
    LET i == lastOp'.id
        k == lastOp'.arg[1]
    IN /\ cx' = cx
       /\ IF k \in DOMAIN cx[i].store
            THEN lastOp'.result = <<cx[i].store[k], TRUE>>
            ELSE lastOp'.result[2] = FALSE

\* C18 (frame): the store of a Context changes only by a Set call on that
\* Context, or when the Context is replaced or discarded.
C18_StoreFrame ==
  \A i \in CtxIds :
    cx'[i].store # cx[i].store =>
      \/ OpStep("Set") /\ lastOp'.id = i
      \/ ops' = ops /\ cx'[i].store = EmptyMap

C19_BindStep ==
  OpStep("Bind") =>
    LET i == lastOp'.id
    IN /\ msgs' = msgs
       /\ published' = published
       /\ cx' = cx
       /\ IF cx[i].binder = "none"
            THEN /\ lastOp'.result = ErrNoBinder
                 /\ bindCalls' = bindCalls
            ELSE /\ bindCalls' = bindCalls + 1
                 /\ IF ValidJSON(cx[i].msg)
                      THEN lastOp'.result = Nil
                      ELSE /\ lastOp'.result[1] = "bind"
                           /\ lastOp'.result[2] = lastOp'.inner
                           /\ lastOp'.inner = JSONError

C19_Bind == [][C19_BindStep]_vars

C19_Witness ==
  /\ lastOp.op = "Bind"
  /\ lastOp.result = BindError(JSONError)
  /\ bindCalls = 1
  /\ lastOp.id \in Patterns


\* the levels of a pattern before its last one match the first n levels of
\* a topic, for some n; no level matches the empty sequence of levels
PrecedingMatch(pattern, topic) ==
  \/ Len(pattern) = 1
  \/ \E n \in 1..Len(topic) :
       Match(SubSeq(pattern, 1, Len(pattern) - 1), SubSeq(topic, 1, n))

\* C20 as stated: when the last level of the pattern is # and the levels
\* before it match the leading levels of the topic, Match returns true
\* whatever number of topic levels remains, zero included.
C20_TrailingHash ==
  (mResult # NotReturned /\ mPattern[Len(mPattern)] = "#"
     /\ PrecedingMatch(mPattern, mTopic)) =>
    mResult = <<TRUE>>

\* what Match does instead: with # as last level it returns true only if at
\* least one topic level remains for the #
C20_NeedsOneLevel ==
  (mResult # NotReturned /\ mPattern = <<"orders", "#">>) =>
    (mResult = <<TRUE>> <=> (Len(mTopic) >= 2 /\ mTopic[1] = "orders"))


\* a pattern without # level
NoHash(pattern) == \A i \in 1..Len(pattern) : pattern[i] # "#"

\* pattern and topic have the same number of levels, and every level of
\* the pattern is * or the string the topic has at that position
LevelWise(pattern, topic) ==
  /\ Len(pattern) = Len(topic)
  /\ \A i \in 1..Len(pattern) : pattern[i] = "*" \/ pattern[i] = topic[i]

\* C21: for a pattern without # level Match is true if and only if pattern
\* and topic have the same number of levels and every pattern level is * or
\* equal to the topic level at its position; a * or # in the topic is an
\* ordinary string.
C21_SingleLevel ==
  (mResult # NotReturned /\ NoHash(mPattern)) =>
    (mResult = <<TRUE>> <=> LevelWise(mPattern, mTopic))

\* a match that does not hold the other way round: the topic has a *
\* where the pattern has a word
C21_Witness ==
  /\ mResult = <<TRUE>>
  /\ NoHash(mPattern)
  /\ \E i \in 1..Len(mTopic) : mTopic[i] = "*" /\ mPattern[i] = "*"
  /\ \E i \in 1..Len(mTopic) : mTopic[i] = "#"
  /\ ~Match(mTopic, mPattern)


\* the position of the first # level of a pattern, 0 if it has none
FirstHash(pattern) ==
  IF NoHash(pattern) THEN 0
  ELSE CHOOSE i \in 1..Len(pattern) :
         pattern[i] = "#" /\ \A j \in 1..(i - 1) : pattern[j] # "#"

\* the levels of s from position from on
Rest(s, from) == SubSeq(s, from, Len(s))

\* matching as the specification words it, of pattern levels against topic
\* levels, none of either included: a word matches itself, * one level,
\* # zero or more levels
RECURSIVE Absorbs(_, _)
Absorbs(pat, top) ==
  IF pat = <<>> THEN top = <<>>
  ELSE IF Head(pat) = "#"
    THEN \E k \in 0..Len(top) : Absorbs(Tail(pat), Rest(top, k + 1))
  ELSE /\ top # <<>>
       /\ Head(pat) = "*" \/ Head(pat) = Head(top)
       /\ Absorbs(Tail(pat), Tail(top))

\* the levels before the # at position h match the leading levels of the
\* topic and the levels after it match a suffix of the levels that remain
SplitMatches(pattern, h, topic) ==
  /\ h - 1 <= Len(topic)
  /\ LevelWise(SubSeq(pattern, 1, h - 1), SubSeq(topic, 1, h - 1))
  /\ \E k \in h..(Len(topic) + 1) :
       Absorbs(Rest(pattern, h + 1), Rest(topic, k))

\* C22 as stated: for a pattern with # at a position that is not the last,
\* Match returns true if and only if the levels before the # match the
\* leading levels of the topic and the rest of the pattern matches at least
\* one suffix of the remaining topic levels, the # absorbing zero or more.
C22_MidHash ==
  (mResult # NotReturned /\ FirstHash(mPattern) \in 1..(Len(mPattern) - 1)) =>
    (mResult = <<TRUE>> <=> SplitMatches(mPattern, FirstHash(mPattern), mTopic))

\* what Match does: the same, for the patterns whose last level is not #
C22_MidHashBeforeWord ==
  (mResult # NotReturned /\ FirstHash(mPattern) \in 1..(Len(mPattern) - 1)
     /\ mPattern[Len(mPattern)] # "#") =>
    (mResult = <<TRUE>> <=> SplitMatches(mPattern, FirstHash(mPattern), mTopic))

\* the split points of the loop after a #, tried in no particular order
AnySplit(pat, pi, top, ti) ==
  \E k \in ti..Len(top) : matchFrom(pat, pi, top, k)

\* the loop over the split points, which starts with the shortest
\* absorption, finds a match exactly if some split point gives one
C22_AnyOrder ==
  \A pi \in 0..Len(mPattern), ti \in 0..Len(mTopic) :
    tryPositions(mPattern, pi, mTopic, ti) = AnySplit(mPattern, pi, mTopic, ti)


Capacity(c) == Cardinality(DOMAIN snapRoutes[c])

\* the subscription tasks of a Start call that have sent an error
Senders(c) ==
  {p \in DOMAIN snapRoutes[c] : task[c][p] = "done" /\ taskErr[c][p] # "none"}

\* C30: a subscription task that has an error to report finds the error
\* channel open and not full, so its send proceeds at once, whether or not
\* Start has returned; the channel never holds more errors than tasks have
\* sent, one each, and is closed only when every task has returned.
C30_SendNeverBlocks ==
  \A c \in Callers :
    /\ \A p \in Patterns :
         task[c][p] = "failed" =>
           /\ ~errClosed[c]
           /\ Len(errCh[c]) < Capacity(c)
           /\ ENABLED SendErr(c, p)
    /\ Len(errCh[c]) <= Cardinality(Senders(c))
    /\ Len(errCh[c]) <= Capacity(c)
    /\ errClosed[c] => \A p \in DOMAIN snapRoutes[c] : task[c][p] = "done"

C30_Witness ==
  \E c \in Callers, p, q \in Patterns :
    /\ pc[c] = "returned"
    /\ result[c] = SubscribeError(p, SubscribeErr)
    /\ task[c][q] = "done"
    /\ errCh[c] = <<SubscribeError(q, FetchErr)>>
    /\ ~errClosed[c]


\* C24: a call of a handler whose outermost function is Recovery never
\* panics: when the handler function or a middleware inside Recovery
\* panics the call returns the panic-recovered error, which is not nil, and
\* when none panics it returns what the handler function returned, nil or
\* an error.
C24_RecoveryCatches ==
  (chOut # NoOutcome /\ Composed[1] = "Recovery") =>
    /\ chOut.result # Panic
    /\ chPanic # NoPanic => (chOut.result = PanicRecovered /\ chOut.result # Nil)
    /\ chPanic = NoPanic => chOut.result = chReturn

C24_Witness ==
  /\ chOut.result = PanicRecovered
  /\ Composed[1] = "Recovery"
  /\ Len(Composed) = 3
  /\ chPanic = <<2, "after">>
  /\ chOut.order[Len(chOut.order)] = <<"Recovery", "after">>


\* a list in the opposite order
Reverse(s) == [i \in 1..Len(s) |-> s[Len(s) + 1 - i]]

LastRegistered(log, n) ==
  log[CHOOSE i \in 1..Len(log) :
        log[i][1] = n /\ \A j \in (i + 1)..Len(log) : log[j][1] # n][2]

Registered(log, n) == \E i \in 1..Len(log) : log[i][1] = n

\* C25 (lookup): what a Create call reads from the map is the factory of
\* the last Register call made for its name, or nothing if there was none.
C25_LookupStep ==
  \A k \in Creators :
    (creating[k].pc = "idle" /\ creating'[k].pc = "looked") =>
      IF Registered(regLog, creating'[k].name)
        THEN /\ creating'[k].ok
             /\ creating'[k].f = LastRegistered(regLog, creating'[k].name)
        ELSE ~creating'[k].ok

\* C25 (return): a Create call that found a factory invokes that factory
\* once, no other, and returns its result; one that found none invokes no
\* factory and returns the unknown-broker error.
C25_ReturnStep ==
  \A k \in Creators :
    (creating[k].pc = "looked" /\ creating'[k].pc = "returned") =>
      IF creating[k].ok
        THEN /\ invoked' = Append(invoked, <<k, creating[k].f>>)
             /\ creating'[k].result \in FactoryResults(creating[k].f)
        ELSE /\ invoked' = invoked
             /\ creating'[k].result = UnknownBroker(creating[k].name)

\* C25 (calls): factories are invoked by Create calls only, once per call
\* at most.
C25_Invocations ==
  /\ invoked' # invoked =>
       \E k \in Creators :
         creating[k].pc = "looked" /\ creating'[k].pc = "returned"
  /\ \A k \in Creators :
       Cardinality({i \in 1..Len(invoked') : invoked'[i][1] = k}) <= 1

\* C25: Create(name, cfg) invokes exactly the factory most recently
\* registered under name when it reads the map, a later Register for a name
\* replacing the earlier one, and returns that factory's result; for a name
\* not registered it returns the unknown-broker error and invokes no
\* factory; in every interleaving of Register and Create calls.
C25_CreateLatest == [][C25_LookupStep /\ C25_ReturnStep /\ C25_Invocations]_vars

C25_Witness ==
  /\ regLog = << <<"kafka", "f1">>, <<"kafka", "f2">>, <<"nats", "f1">> >>
  /\ creating["k1"].result = <<"broker", "f2">>
  /\ creating["k2"].result = UnknownBroker("nats")
  /\ invoked = << <<"k1", "f2">> >>


\* C26 (step): the step in which the handler of a delivery returns leaves
\* the subscription consuming, with no error recorded or sent and the Start
\* call where it was; after an error kafka calls nothing and no offset is
\* committed, rabbitmq has called Nack with the configured requeue flag and
\* nats has called Nak; after nil none of them has called anything.
C26_ReturnStep ==
  \A c \in Callers, p \in Patterns :
    (task[c][p] = "handling" /\ task'[c][p] # "handling") =>
      /\ task'[c][p] = "consuming"
      /\ UNCHANGED <<pc, result, errCh, errClosed, taskErr, closed, returns>>
      /\ msgs' = msgs
      /\ \A e \in execLog' :
           (e.caller = c /\ e.pattern = p) =>
             adNack' = IF e.handler = Nil \/ kind = "kafka" THEN NoNack
                       ELSE IF kind = "rabbitmq" THEN <<"Nack", FALSE, requeue>>
                       ELSE <<"Nak">>

\* C26 (state): a consuming subscription accepts the next delivery; no
\* subscription has failed with the error of a handler, and no Start call
\* has returned one.
C26_State ==
  \A c \in Callers :
    /\ \A p \in Patterns :
         /\ task[c][p] = "consuming" => ENABLED Deliver(c, p, "m1")
         /\ taskErr[c][p] \in {"none", SubscribeErr, FetchErr, BrokerClosedErr}
    /\ result[c] # <<"ErrHandler">>
    /\ \A p \in Patterns : result[c] # SubscribeError(p, "ErrHandler")

\* C26: when a handler returns an error the consume loop of the adapter
\* applies its policy (kafka: no commit; rabbitmq: Nack with the requeue
\* flag; nats: Nak) and goes on with the next delivery; the error never
\* makes Subscribe return and never ends Start.
C26_NackAndContinue == [][C26_State' /\ C26_ReturnStep]_vars

\* the next delivery of a subscription is with its handler after the
\* handler returned an error for the one before
C26_Witness ==
  \E e \in execLog :
    /\ e.handler = NotReturned
    /\ DOMAIN snapRoutes[e.caller] = {e.pattern}
    /\ kind = "rabbitmq"
    /\ requeue
    /\ adNack = Nacked(TRUE)
    /\ task[e.caller][e.pattern] = "handling"
    /\ pc[e.caller] = "select"


\* C27 (Publish): a Publish call made on a closed adapter returns
\* ErrBrokerClosed and sends nothing.
C27_PublishStep ==
  (closed /\ (pubCall' # pubCall \/ pubResult' # pubResult
                \/ published' # published)) =>
    /\ pubResult' = ErrBrokerClosed
    /\ published' = published

\* C27 (Subscribe): a Subscribe call made on a closed adapter returns
\* ErrBrokerClosed and consumes nothing.
C27_SubscribeStep ==
  \A c \in Callers, p \in Patterns :
    (closed /\ subscribeCalls'[c][p] # subscribeCalls[c][p]) =>
      /\ task'[c][p] = "failed"
      /\ taskErr'[c][p] = BrokerClosedErr

\* C27 (Close): a Close call made on a closed adapter, directly or by
\* Start, returns nil and closes no resource; one made on an open adapter
\* closes the resources once.
C27_CloseStep ==
  /\ directClose' # directClose =>
       /\ closed => (directClose'.result = Nil
                      /\ resourceCloses' = resourceCloses)
       /\ ~closed => resourceCloses' = resourceCloses + 1
  /\ \A c \in Callers :
       closeCalls'[c] # closeCalls[c] =>
         /\ closed => (closeResult'[c] = Nil
                        /\ resourceCloses' = resourceCloses)
         /\ ~closed => resourceCloses' = resourceCloses + 1
  /\ resourceCloses' # resourceCloses =>
       (directClose' # directClose \/ closeCalls' # closeCalls)
  /\ closed => closed'

\* C27: once Close has completed on an adapter, every later Publish and
\* Subscribe call returns ErrBrokerClosed, and every later Close call
\* returns nil and closes nothing: the resources are closed once.
C27_ClosedForGood ==
  [][C27_PublishStep /\ C27_SubscribeStep /\ C27_CloseStep
       /\ resourceCloses' <= 1 /\ (closed' <=> resourceCloses' = 1)]_vars

C27_Witness ==
  /\ directClose = [calls |-> 2, result |-> Nil]
  /\ closeCalls["s1"] = 1
  /\ closeResult["s1"] = Nil
  /\ resourceCloses = 1
  /\ pubResult = ErrBrokerClosed
  /\ \E p \in Patterns : taskErr["s1"][p] = BrokerClosedErr


\* a Start call that is between its Lock and its Unlock
InStartHead(c) == pc[c] \in {"guards", "copyroutes", "copymws", "unlock"}

\* C29 (lock): at most one goroutine is between Lock and Unlock, and while
\* a Start call is there no Use or Handle call writes: the route table, the
\* middleware list and the matcher stay as they are.
C29_Exclusive ==
  /\ Cardinality({c \in Callers : InStartHead(c)}
                   \cup {a \in Registrars : regPc[a] # "idle"}) <= 1
  /\ \A c \in Callers : InStartHead(c) => mu = c
  /\ \A a \in Registrars : regPc[a] # "idle" => mu = a

C29_HeadStep ==
  (\E c \in Callers : InStartHead(c)) =>
    UNCHANGED <<routes, middlewares, matcher>>

\* C29 (snapshot): when Start releases the lock its copies are the route
\* table and the middleware list of that moment, which hold every Use and
\* Handle call that has returned and nothing of a call that has not
\* written; the copies never change afterwards.
C29_UnlockStep ==
  \A c \in Callers :
    /\ (pc[c] = "unlock" /\ pc'[c] = "spawn") =>
         /\ snapRoutes'[c] = routes' /\ snapMws'[c] = middlewares'
         /\ DOMAIN snapRoutes'[c] = DOMAIN lastHandle
         /\ \A p \in DOMAIN lastHandle :
              snapRoutes'[c][p] = BaseHandler(lastHandle[p])
    /\ (pc[c] \notin {"idle", "guards", "copyroutes", "copymws", "unlock"}) =>
         UNCHANGED <<snapRoutes[c], snapMws[c]>>

\* C29 (dispatch): every delivery runs the snapshotted handler inside the
\* snapshotted middlewares, whatever the router holds by then.
C29_DispatchFromSnapshot ==
  \A e \in execLog :
    e.order = ExpectedOrder(snapMws[e.caller],
                            snapRoutes[e.caller][e.pattern][1])

\* C29: the snapshot of Start is atomic with respect to concurrent Use and
\* Handle calls: it is the state of the router at one moment, so each call
\* is in it entirely or not at all and every call that returned before
\* Start was invoked is in it; the dispatch reads the copies only.
C29_AtomicSnapshot ==
  [][C29_Exclusive' /\ C29_DispatchFromSnapshot' /\ C29_HeadStep
       /\ C29_UnlockStep]_vars

C29_Witness ==
  \E e \in execLog :
    /\ e.stale
    /\ Len(snapMws[e.caller]) = 1
    /\ \E a \in Registrars : regPc[a] = "Handle"
    /\ \E d \in Callers : result[d] = ErrAlreadyStarted

\* the Broker.Close calls the Start calls in S have made
RECURSIVE CloseCallsOf(_)
CloseCallsOf(S) ==
  IF S = {} THEN 0
  ELSE LET c == CHOOSE x \in S : TRUE
       IN closeCalls[c] + CloseCallsOf(S \ {c})

\* C31: over the life of a router, whatever Start calls are made and however
\* the cancellation interleaves with subscription errors, the Start calls
\* together call Broker.Close at most once: only the call that passed the
\* guards can, and it does so on one path only.
C31_CloseAtMostOnce ==
  /\ CloseCallsOf(Callers) <= 1
  /\ \A c \in Callers : closeCalls[c] > 0 => (pc[c] = "returned" /\ Passed(c))

C31_Witness ==
  \E c, d \in Callers :
    /\ closeCalls[c] = 1
    /\ errCh[c] # <<>>
    /\ ctxDone
    /\ result[d] = ErrAlreadyStarted

\* C32: every Broker.Subscribe call of a Start call begins before the
\* router calls Broker.Close: at a step that makes a Subscribe call no
\* Start call has called Close, also when the context is cancelled before
\* or right after Start is called.
C32_SubscribeBeforeClose ==
  [][\A c \in Callers, p \in Patterns :
       subscribeCalls'[c][p] # subscribeCalls[c][p] =>
         CloseCallsOf(Callers) = 0]_vars

ReturnedSubscribeError(c) == pc[c] = "returned" /\ IsSubscribeError(result[c])

\* C34 (state): once Start has returned a subscription error it has not
\* closed the broker, which is closed only if the caller closed it; every
\* other subscription that consumes can still get a delivery, and a
\* delivery runs the handler of its own pattern inside the middlewares.
C34_State ==
  \A c \in Callers :
    ReturnedSubscribeError(c) =>
      /\ closeCalls[c] = 0
      /\ closed => directClose.calls > 0
      /\ \A q \in Patterns :
           task[c][q] = "consuming" => ENABLED Deliver(c, q, "m1")
      /\ \A e \in execLog :
           e.caller = c =>
             e.order = ExpectedOrder(snapMws[c], snapRoutes[c][e.pattern][1])

\* C34 (steps): the return of the subscription error changes neither the
\* subscription tasks nor the broker nor the context; afterwards the
\* broker is closed by a Close call of the caller only, and while the
\* context is live a subscription ends only when its own consume loop does.
C34_Step ==
  \A c \in Callers :
    /\ (pc[c] = "select" /\ ReturnedSubscribeError(c)') =>
         UNCHANGED <<task, taskErr, wrapped, subscribeCalls, closed, ctxDone,
                     closeCalls>>
    /\ (ReturnedSubscribeError(c) /\ closed' # closed) =>
         directClose'.calls = directClose.calls + 1
    /\ \A q \in Patterns :
         (ReturnedSubscribeError(c) /\ ~ctxDone /\ task[c][q] = "handling") =>
           task'[c][q] \in {"handling", "consuming"}

\* C34: after Start has returned a subscription error with the context
\* live, the subscriptions of the other routes stay active, a later
\* delivery on another pattern still invokes its handler, and the broker
\* stays open until the caller cancels the context or closes the broker.
C34_OthersStayActive == [][C34_State' /\ C34_Step]_vars

C34_Witness ==
  \E p, q \in Patterns :
    /\ ReturnedSubscribeError("s1")
    /\ result["s1"] = SubscribeError(p, SubscribeErr)
    /\ ~ctxDone
    /\ ~closed
    /\ q # p
    /\ task["s1"][q] = "handling"
    /\ \E e \in execLog : e.pattern = q /\ e.handler = NotReturned

\* C35: on the rabbitmq and nats adapters a delivery receives at most one
\* acknowledgement or negative acknowledgement at the client, whatever its
\* handler does.
C35_AtMostOneAck ==
  kind \in {"rabbitmq", "nats"} =>
    \A p \in Patterns : Len(vendor[p]) <= 1

\* the positive acknowledgements among the calls a delivery received
Positive(calls) ==
  {k \in 1..Len(calls) : calls[k][1] \in {"Ack", "Commit"}}

\* C36 (steps): a delivery receives a positive acknowledgement, and a
\* message an Ack call, only in a step that is a call of Ack of a Context;
\* the return of the handler, whatever it returns, adds none.
C36_AckStep ==
  /\ \A p \in Patterns :
       Cardinality(Positive(vendor'[p])) > Cardinality(Positive(vendor[p])) =>
         /\ lastOp'.op = "Ack" /\ lastOp'.id = p
         /\ ops' = ops + 1
  /\ (\E m \in Msgs : msgs'[m].acks # msgs[m].acks) =>
       (lastOp'.op = "Ack" /\ ops' = ops + 1)
  /\ \A p \in Patterns :
       (task["s1"][p] = "handling" /\ task'["s1"][p] = "consuming") =>
         /\ msgs' = msgs
         /\ Positive(vendor'[p]) = Positive(vendor[p])

\* C36: neither the router nor an adapter acknowledges a message on behalf
\* of the handler: Message.Ack is called only when the handler or a
\* middleware calls Ack, so a handler that returns nil without calling Ack
\* leaves the message unacknowledged.
C36_NoAutoAck == [][C36_AckStep]_vars

C36_Witness ==
  \E e \in execLog :
    /\ e.handler = Nil
    /\ task["s1"][e.pattern] = "consuming"
    /\ vendor[e.pattern] = <<>>
    /\ msgs[e.msg].acks = 0
    /\ ops = 0

\* a Close call of the kafka Broker has completed
KClosed == \E x \in KClosers : kclose[x].pc = "done"

\* the reader of Subscribe call t is in b.readers
InReaders(t) == \E k \in 1..Len(kb.readers) : kb.readers[k] = t

\* C37 (state): once Close has completed, a reader that is open belongs to
\* a Subscribe call that has not yet passed its check of b.closed or is
\* about to close it, and no such call is in its consume loop; once every
\* Subscribe call made is past that, every reader created is closed.  A
\* reader is in b.readers, or its call has not got there yet, or the call
\* closed it itself and returned BrokerClosed without fetching from it.
C37_State ==
  /\ KClosed =>
       \A t \in KSubscribers :
         ksub[t].reader = "open" =>
           ksub[t].pc \in {"created", "locked", "closing"}
  /\ (KClosed /\ \A t \in KSubscribers :
                   ksub[t].pc \in {"idle", "consuming", "returned"}) =>
       \A t \in KSubscribers : ksub[t].reader \in {"none", "closed"}
  /\ \A t \in KSubscribers :
       ksub[t].reader # "none" =>
         \/ InReaders(t)
         \/ ksub[t].pc \in {"created", "locked", "closing"}
         \/ /\ ksub[t].reader = "closed"
            /\ ksub[t].result = ErrBrokerClosed
            /\ ~ksub[t].fetched

\* C37 (steps): a call that finds the broker closed never fetches, and a
\* reader of b.readers is there when the Close call that closes the
\* readers runs.
C37_Step ==
  \A t \in KSubscribers :
    /\ (ksub[t].pc = "locked" /\ kb.closed) =>
         (ksub'[t].pc \in {"locked", "closing"} /\ ~ksub'[t].fetched)
    /\ (ksub[t].reader = "open" /\ ksub'[t].reader = "closed") =>
         \/ InReaders(t) /\ \E x \in KClosers : kclose[x].pc = "readers"
         \/ ksub[t].pc = "closing" /\ ksub'[t].result = ErrBrokerClosed

\* C37: in the kafka adapter, under any interleaving of Subscribe and
\* Close, every reader created by Subscribe is closed once Close has
\* completed: it is in b.readers when Close runs, or Subscribe closes it
\* itself and returns BrokerClosed without consuming.
C37_ReadersClosed == [][C37_State' /\ C37_Step]_vars

C37_Witness ==
  /\ KClosed
  /\ \E t, u \in KSubscribers :
       /\ ksub[t].result = ErrBrokerClosed /\ ksub[t].reader = "closed"
       /\ ksub[u].result = <<FetchErr>> /\ ksub[u].fetched
  /\ \A x \in KClosers : kclose[x].pc = "done"

\* C38: every operation of the router reports a missing broker as NoBroker:
\* a Router.Publish call on a router built with a nil broker returns
\* NoBroker, as Start and Context.Republish do.
C38_PublishNoBroker ==
  (~hasBroker /\ pubCall # NoCall) => pubResult = ErrNoBroker

====
